---- MODULE Spec2Model ----
(***************************************************************************)
(* A model of the OpenAPI generator of elysia-openapi (openapi.ts):        *)
(* the guard merge engine (mergeObjectSchemas, mergeSchemaProperty,        *)
(* mergeResponseSchema, mergeStandaloneValidators, flattenRoutes), the     *)
(* schema normaliser (unwrapSchema, enumToOpenApi, unwrapReference) and    *)
(* the assembly loop of toOpenAPISchema.                                   *)
(*                                                                         *)
(* JavaScript values are modelled as follows.                              *)
(*   undefined            Undefined                                        *)
(*   a string s           Str(s)                                           *)
(*   an object            a TLA+ function whose domain is the set of the   *)
(*                        object's own keys ("k in o" is k \in DOMAIN o);  *)
(*                        the TypeBox Kind symbol is the key "Kind" and    *)
(*                        the key '~standard' is "std"                     *)
(*   schema.properties    a sequence of [k, v] entries in insertion order  *)
(*   an array             a sequence                                       *)
(***************************************************************************)
EXTENDS Integers, Sequences, FiniteSets, TLC

VARIABLES
    existing,    \* first argument of the merge under test
    incoming,    \* second argument of the merge under test
    localHook,   \* a route's hooks object with its guard chain
    vendors,     \* mapJsonSchema: vendor name -> user converter
    merged,      \* the value the last merge returned
    op,          \* the operation that produced merged
    warned,      \* the module-level warned flags (set of flag names)
    registry,    \* app.getGlobalRoutes(): the application's routes
    definitions, \* app.getGlobalDefinitions().type: name -> schema
    references,  \* the caller's additional references (an array)
    exclude,     \* the caller's exclusion rules
    pc,          \* where toOpenAPISchema stands: idle, loop, done
    routes,      \* toOpenAPISchema's flattened routes
    index,       \* the position of the route loop in routes
    route,       \* the route of the last iteration, with its hooks
    operation,   \* the operation the last iteration built, if any
    paths,       \* the paths object under construction
    components,  \* components.schemas of the returned document
    callee,      \* the helper function applied on its own, if any
    arguments,   \* the arguments it is applied to
    returned,    \* the value it returned
    history,     \* the unwrapSchema calls of the process so far, in order
    code,        \* extractRootObjects' text, a sequence of atoms
    cursor,      \* its scan index i (the first atom is at 1)
    results,     \* the fragments it pushed, each with its span of code
    taken,       \* how many fragments declarationToJSONSchema went through
    mined,       \* declarationToJSONSchema's routes: path -> method -> slots
    stage,       \* where declarationToJSONSchema stands
    pass,        \* which call of toOpenAPISchema on the application this is
    document     \* the document the first call returned

mergeVars == <<existing, incoming, localHook, merged, op>>

genVars ==
    <<registry, definitions, references, exclude, pc, routes, index, route,
      operation, paths, components>>

callVars == <<callee, arguments, returned, history>>

minerVars == <<code, cursor, results, taken, mined, stage>>

passVars == <<pass, document>>

vars ==
    <<mergeVars, vendors, warned, genVars, callVars, minerVars, passVars>>

----------------------------------------------------------------------------
(* JavaScript values *)

Undefined == [undefined |-> TRUE]

Str(s) == [string |-> s]

IsString(v) == DOMAIN v = {"string"}

Has(o, k) == k \in DOMAIN o

\* the boolean false read as a value
JSFalse == [boolean |-> FALSE]

\* !v: undefined and false are falsy (names are non-empty strings, every
\* object is truthy)
Falsy(v) == v = Undefined \/ v = JSFalse

\* o.k, with "" standing for an absent string-valued field
StrField(o, k) == IF Has(o, k) THEN o[k] ELSE ""

TypeOf(o) == StrField(o, "type")

\* { ...o, k: v }
With(o, k, v) == (k :> v) @@ o

\* o with key k deleted (the rest pattern of a destructuring)
Without(o, k) == [x \in DOMAIN o \ {k} |-> o[x]]

----------------------------------------------------------------------------
(* Ordered property maps: <<[k |-> key, v |-> value], ...>> *)

Keys(ps) == {ps[i].k : i \in 1..Len(ps)}

KeySeq(ps) == [i \in 1..Len(ps) |-> ps[i].k]

Lookup(ps, key) == (CHOOSE i \in 1..Len(ps) : ps[i].k = key)

ValueOf(ps, key) == ps[Lookup(ps, key)].v

\* { ...a, ...b } on property maps: a's keys keep their position and take
\* b's value on collision, b's new keys follow in b's order
SpreadProps(a, b) ==
    LET over == [i \in 1..Len(a) |->
                    IF a[i].k \in Keys(b)
                    THEN [k |-> a[i].k, v |-> ValueOf(b, a[i].k)]
                    ELSE a[i]]
        isNew(e) == e.k \notin Keys(a)
    IN over \o SelectSeq(b, isNew)

Range(s) == {s[i] : i \in 1..Len(s)}

\* a required list left as concatenated
KeepRepeats(s) == s

\* [...new Set(s)]: first occurrences, in order
Dedupe(s) ==
    LET first[n \in 0..Len(s)] ==
            IF n = 0 THEN <<>>
            ELSE IF s[n] \in Range(first[n - 1]) THEN first[n - 1]
            ELSE Append(first[n - 1], s[n])
    IN first[Len(s)]

----------------------------------------------------------------------------
(* TypeBox constructors (the shapes t.X() builds) *)

TString == [Kind |-> "String", type |-> "string"]

TNumber == [Kind |-> "Number", type |-> "number"]

TBoolean == [Kind |-> "Boolean", type |-> "boolean"]

TVoid == [Kind |-> "Void", type |-> "void"]

TNull == [Kind |-> "Null", type |-> "null"]

TUndefined == [Kind |-> "Undefined", type |-> "undefined"]

TLiteral(c) == [Kind |-> "Literal", type |-> "string", const |-> c]

\* t.Ref(pointer)
TRef(pointer) == ("$ref" :> pointer) @@ [Kind |-> "Ref"]

TUnion(members) == [Kind |-> "Union", anyOf |-> members]

\* t.Object(properties): required lists the given keys and is left out
\* when there is none
TObject(props, req) ==
    IF req = <<>>
    THEN [Kind |-> "Object", type |-> "object", properties |-> props]
    ELSE [Kind |-> "Object", type |-> "object", properties |-> props,
          required |-> req]

\* t.Intersect(members): typed 'object' only when every member is a
\* TypeBox Object
TIntersect(members) ==
    IF \A i \in 1..Len(members) :
          Has(members[i], "Kind") /\ members[i].Kind = "Object"
    THEN [Kind |-> "Intersect", type |-> "object", allOf |-> members]
    ELSE [Kind |-> "Intersect", allOf |-> members]

----------------------------------------------------------------------------
(* Vendor (Standard Schema) objects and calls into user or vendor code.    *)
(* A call is modelled by its outcome: [returns |-> value] or               *)
(* [throws |-> TRUE].  A vendor schema is an object with the key "std"     *)
(* ('~standard': [vendor, jsonSchema?]) and optionally the methods         *)
(* "toJSONSchema", "toJsonSchema" (each the outcome of calling it) and the *)
(* marker "_zod".  mapJsonSchema maps a vendor name to                     *)
(* [isFunction, outcome].                                                  *)

Returns(v) == [returns |-> v]

Throws == [throws |-> TRUE]

EmptyObject == [x \in {} |-> TRUE]

\* A JSON pointer or name held in $ref is modelled as the sequence of its
\* '/'-separated segments: '#/components/schemas/X' is
\* <<"#", "components", "schemas", X>> and the bare name 'X' is <<X>>.
toRef(name) == TRef(<<"#", "components", "schemas", name>>)

\* a normaliser that folds nothing
unfolded(schema) == schema

RECURSIVE enumToOpenApi(_)
enumToOpenApi(schema) ==
    IF Falsy(schema) \/ IsString(schema) THEN schema
    ELSE IF /\ Has(schema, "Kind")
            /\ schema.Kind = "Union"
            /\ Has(schema, "anyOf")
            /\ Len(schema.anyOf) > 0
            /\ \A i \in 1..Len(schema.anyOf) : Has(schema.anyOf[i], "const")
    THEN [type |-> "string",
          enum |-> [i \in 1..Len(schema.anyOf) |-> schema.anyOf[i].const]]
    ELSE IF TypeOf(schema) = "object" /\ Has(schema, "properties")
    THEN With(schema, "properties",
              [i \in 1..Len(schema.properties) |->
                  [k |-> schema.properties[i].k,
                   v |-> enumToOpenApi(schema.properties[i].v)]])
    ELSE IF TypeOf(schema) = "array" /\ Has(schema, "items")
    THEN With(schema, "items", enumToOpenApi(schema.items))
    ELSE schema

\* whether unwrapSchema reaches its vendor switch for this schema
ReachesVendorSwitch(schema, mapJsonSchema, io) ==
    /\ ~Falsy(schema)
    /\ ~IsString(schema)
    /\ ~Has(schema, "Kind")
    /\ Has(schema, "std")
    /\ ~(Has(schema.std, "jsonSchema") /\ Has(schema.std.jsonSchema, io))
    /\ ~(Has(mapJsonSchema, schema.std.vendor)
         /\ mapJsonSchema[schema.std.vendor].isFunction)

\* the warned flags after one unwrapSchema call (the switch on the vendor)
WarnedAfterUnwrap(w, schema, mapJsonSchema, io) ==
    IF ~ReachesVendorSwitch(schema, mapJsonSchema, io) THEN w
    ELSE CASE schema.std.vendor = "zod" ->
                IF "zod4" \in w \/ "zod3" \in w THEN w
                ELSE IF Has(schema, "_zod") THEN w \cup {"zod4"}
                ELSE w \cup {"zod3"}
           [] schema.std.vendor = "valibot" -> w \cup {"valibot"}
           [] schema.std.vendor = "effect" -> w \cup {"effect"}
           [] OTHER -> w

\* the vendor whose diagnostic one unwrapSchema call prints, if any
Diagnosed(w, schema, mapJsonSchema, io) ==
    IF ~ReachesVendorSwitch(schema, mapJsonSchema, io) THEN {}
    ELSE CASE schema.std.vendor = "zod" ->
                IF "zod4" \in w \/ "zod3" \in w THEN {} ELSE {"zod"}
           [] schema.std.vendor = "valibot" ->
                IF "valibot" \in w THEN {} ELSE {"valibot"}
           [] schema.std.vendor = "effect" ->
                IF "effect" \in w THEN {} ELSE {"effect"}
           [] OTHER -> {}

\* a try block that lets the value of a failed call through
Uncaught(outcome) ==
    IF Has(outcome, "throws") THEN [type |-> "object"] ELSE outcome.returns

\* the value of a call made inside unwrapSchema's try block
Caught(outcome) == IF Has(outcome, "throws") THEN Undefined ELSE outcome.returns

\* unwrapSchema past its first two lines, on an object s
UnwrapObject(s, mapJsonSchema, io) ==
    IF /\ ~Has(s, "Kind") /\ Has(s, "std")
       /\ Has(s.std, "jsonSchema") /\ Has(s.std.jsonSchema, io)
    THEN Caught(s.std.jsonSchema[io])
    ELSE enumToOpenApi(
           IF Has(s, "Kind") THEN s
           ELSE IF ~Has(s, "std") THEN Undefined
           ELSE IF /\ Has(mapJsonSchema, s.std.vendor)
                   /\ mapJsonSchema[s.std.vendor].isFunction
           THEN Caught(mapJsonSchema[s.std.vendor].outcome)
           ELSE IF /\ s.std.vendor # "arktype"
                   /\ Has(s, "toJSONSchema")
                   /\ Has(s.toJSONSchema, "throws")
           THEN Undefined
           ELSE IF /\ s.std.vendor # "arktype"
                   /\ Has(s, "toJSONSchema")
                   /\ s.toJSONSchema.returns # Undefined
           THEN s.toJSONSchema.returns
           ELSE IF Has(s, "toJsonSchema") THEN Caught(s.toJsonSchema)
           ELSE Undefined)

unwrapSchema(schema, mapJsonSchema, io) ==
    IF Falsy(schema) THEN Undefined
    ELSE UnwrapObject(IF IsString(schema) THEN toRef(schema.string)
                      ELSE schema,
                      mapJsonSchema, io)

----------------------------------------------------------------------------
(* Schema flattening helpers *)

\* one step of the loop of mergeObjectSchemas over the accumulator
\* [newSchema, notObjects, isTrue, isFalse]
MergeObjectStep(acc, schema) ==
    IF Falsy(schema) THEN acc
    ELSE IF TypeOf(schema) # "object"
    THEN [acc EXCEPT !.notObjects = Append(@, schema)]
    ELSE LET flagged ==
                 [acc EXCEPT
                    !.isTrue = @ \/ (Has(schema, "additionalProperties")
                                     /\ schema.additionalProperties = TRUE),
                    !.isFalse = @ \/ (Has(schema, "additionalProperties")
                                      /\ schema.additionalProperties = FALSE)]
             old == acc.newSchema
             props(o) == IF Has(o, "properties") THEN o.properties ELSE <<>>
             req(o) == IF Has(o, "required") THEN o.required ELSE <<>>
         IN IF Falsy(old) THEN [flagged EXCEPT !.newSchema = schema]
            ELSE [flagged EXCEPT !.newSchema =
                     [properties |-> SpreadProps(props(old), props(schema)),
                      required |-> req(old) \o req(schema)]
                     @@ schema @@ old]

\* the loop of mergeObjectSchemas
MergeObjectLoop(schemas) ==
    LET loop[n \in 0..Len(schemas)] ==
            IF n = 0
            THEN [newSchema |-> Undefined, notObjects |-> <<>>,
                  isTrue |-> FALSE, isFalse |-> FALSE]
            ELSE MergeObjectStep(loop[n - 1], schemas[n])
    IN loop[Len(schemas)]

\* what mergeObjectSchemas does after its loop
MergeObjectFinish(acc) ==
    LET deduped == IF Has(acc.newSchema, "required")
                   THEN With(acc.newSchema, "required",
                             Dedupe(acc.newSchema.required))
                   ELSE acc.newSchema
    IN [schema |-> IF Falsy(acc.newSchema) THEN Undefined
                   ELSE IF acc.isFalse
                   THEN With(deduped, "additionalProperties", FALSE)
                   ELSE IF acc.isTrue
                   THEN With(deduped, "additionalProperties", TRUE)
                   ELSE deduped,
        notObjects |-> acc.notObjects]

\* returns [schema |-> merged object or Undefined, notObjects |-> seq]
mergeObjectSchemas(schemas) ==
    IF Len(schemas) = 0 THEN [schema |-> Undefined, notObjects |-> <<>>]
    ELSE IF Len(schemas) = 1
    THEN IF TypeOf(schemas[1]) = "object"
         THEN [schema |-> schemas[1], notObjects |-> <<>>]
         ELSE [schema |-> Undefined, notObjects |-> schemas]
    ELSE MergeObjectFinish(MergeObjectLoop(schemas))

\* Kind in value (every other branch of isTSchema returns false)
isTSchema(value) ==
    IF Falsy(value) \/ IsString(value) THEN FALSE ELSE Has(value, "Kind")

normalizeSchemaReference(schema) ==
    IF Falsy(schema) THEN Undefined
    ELSE IF ~IsString(schema) THEN schema
    ELSE TRef(<<schema.string>>)

\* the unwrapSchema calls of mergeSchemaProperty, in order, as [schema, io]
PropertyCalls(exist, incom) ==
    IF Falsy(exist) \/ Falsy(incom) THEN <<>>
    ELSE LET normalized == normalizeSchemaReference(incom)
         IN IF ~isTSchema(normalized) /\ Has(normalized, "std")
            THEN <<[schema |-> normalized, io |-> "input"]>>
            ELSE <<>>

\* the incoming schema after the vendor conversion of mergeSchemaProperty
IncomingSchema(normalized, mapJsonSchema) ==
    IF ~isTSchema(normalized) /\ Has(normalized, "std")
    THEN unwrapSchema(normalized, mapJsonSchema, "input")
    ELSE normalized

\* a merge that keeps only the first schema it holds
FirstSchemaOnly(m) ==
    IF Falsy(m.schema) THEN m.notObjects[1] ELSE m.schema

\* the value mergeSchemaProperty builds from the result m of
\* mergeObjectSchemas
MergeSchemaResult(m) ==
    IF Len(m.notObjects) = 0 THEN m.schema
    ELSE IF ~Falsy(m.schema) THEN TIntersect(<<m.schema>> \o m.notObjects)
    ELSE IF Len(m.notObjects) = 1 THEN m.notObjects[1]
    ELSE TIntersect(m.notObjects)

\* mergeSchemaProperty once both sides are normalised
MergeNormalized(exist, existingSchema, incomingSchema) ==
    IF Falsy(incomingSchema) THEN exist
    ELSE MergeSchemaResult(
             mergeObjectSchemas(<<existingSchema, incomingSchema>>))

mergeSchemaProperty(exist, incom, mapJsonSchema) ==
    IF Falsy(exist) THEN incom
    ELSE IF Falsy(incom) THEN exist
    ELSE MergeNormalized(exist, normalizeSchemaReference(exist),
             IncomingSchema(normalizeSchemaReference(incom), mapJsonSchema))

----------------------------------------------------------------------------
(* Reading an object key by key (Object.keys, Object.entries, o[k]).       *)
(* Under a status key an object holds a slot value (Undefined, Str, an     *)
(* object).  Under a schema field key it holds the field's own TLA+ value  *)
(* (type: a string, properties: a sequence, ...).  Entry reads either as a *)
(* slot value.  When the code stores an object under a schema field key    *)
(* (it does when it takes a plain JSON schema for a status map), Put keeps *)
(* a marker under the key and the object under the key's shadow "#key",    *)
(* so that typed reads of the field stay defined: the marker is truthy and *)
(* differs from every type name.                                           *)

StringFieldKeys == {"type", "description"}

FieldKeys ==
    StringFieldKeys \cup
    {"properties", "required", "additionalProperties", "anyOf", "allOf",
     "items", "enum", "const", "$ref", "std", "toJSONSchema", "toJsonSchema",
     "_zod"}

Shadow(k) == "#" \o k

ShadowKeys == {Shadow(k) : k \in FieldKeys}

\* Object.keys(o) as a set: symbol keys (Kind) are not enumerated
EntryKeys(o) == DOMAIN o \ ({"Kind"} \cup ShadowKeys)

StatusOrder == <<"200", "204", "401", "404", "500">>

RECURSIVE SetToSeq(_)
SetToSeq(ks) ==
    IF ks = {} THEN <<>>
    ELSE LET k == CHOOSE x \in ks : TRUE IN <<k>> \o SetToSeq(ks \ {k})

\* Object.keys(o) in order: integer-like keys ascending, then the others
OrderedKeys(o) ==
    LET present(k) == k \in EntryKeys(o)
    IN SelectSeq(StatusOrder, present)
       \o SetToSeq(EntryKeys(o) \ Range(StatusOrder))

Entry(o, k) ==
    IF ~Has(o, k) THEN Undefined
    ELSE IF k \notin FieldKeys THEN o[k]
    ELSE IF Has(o, Shadow(k)) THEN o[Shadow(k)]
    ELSE IF k \in StringFieldKeys THEN Str(o[k])
    ELSE IF k = "additionalProperties"
    THEN (IF o[k] THEN [opaque |-> TRUE] ELSE JSFalse)
    ELSE [opaque |-> o[k]]

Marker(k) ==
    IF k \in StringFieldKeys THEN "[object]"
    ELSE IF k = "additionalProperties" THEN TRUE
    ELSE <<>>

\* o[k] = v for a slot value v
Put(o, k, v) ==
    IF k \notin FieldKeys THEN With(o, k, v)
    ELSE IF k \in StringFieldKeys /\ IsString(v)
    THEN With(Without(o, Shadow(k)), k, v.string)
    ELSE IF k \notin StringFieldKeys /\ Has(v, "opaque")
    THEN With(Without(o, Shadow(k)), k, v.opaque)
    ELSE IF k = "additionalProperties" /\ v = JSFalse
    THEN With(Without(o, Shadow(k)), k, FALSE)
    ELSE With(With(o, k, Marker(k)), Shadow(k), v)

\* the single-schema test of mergeResponseSchema:
\* isTSchema(x) || x?.['~standard']
IsSingleResponse(x) == isTSchema(x) \/ Has(x, "std")

\* what unwrapResponseSchema makes of one schema (a whole single slot, or
\* one entry of a status map)
UnwrapResponseEntry(v, mapJsonSchema) ==
    IF IsString(v) THEN normalizeSchemaReference(v)
    ELSE IF isTSchema(v) THEN v
    ELSE unwrapSchema(v, mapJsonSchema, "output")

\* the unwrapSchema calls of unwrapResponseSchema
UnwrapResponseCalls(schema) ==
    LET ks == OrderedKeys(schema)
        call(v) == IF IsString(v) \/ isTSchema(v) THEN <<>>
                   ELSE <<[schema |-> v, io |-> "output"]>>
        each[n \in 0..Len(ks)] ==
            IF n = 0 THEN <<>>
            ELSE each[n - 1] \o call(Entry(schema, ks[n]))
    IN IF IsString(schema) \/ Falsy(schema) \/ isTSchema(schema) THEN <<>>
       ELSE IF Has(schema, "std") THEN call(schema)
       ELSE each[Len(ks)]

unwrapResponseSchema(schema, mapJsonSchema) ==
    LET single == \/ IsString(schema) \/ Falsy(schema)
                  \/ isTSchema(schema) \/ Has(schema, "std")
        \* a single schema is unwrapped like the one entry of a map
        source == IF single THEN ("200" :> schema) ELSE schema
        ks == OrderedKeys(source)
        entries[n \in 0..Len(ks)] ==
            IF n = 0 THEN EmptyObject
            ELSE Put(entries[n - 1], ks[n],
                     UnwrapResponseEntry(Entry(source, ks[n]), mapJsonSchema))
    IN IF single THEN entries[Len(ks)]["200"] ELSE entries[Len(ks)]

\* the body of the loop of mergeResponseSchema for one status; acc is
\* [result |-> the schema map so far, calls |-> the unwrapSchema calls so far]
MergeStatus(acc, status, existingSchema, incomingSchema, mapJsonSchema) ==
    [result |->
        IF ~Falsy(existingSchema) /\ ~Falsy(incomingSchema)
        THEN Put(acc.result, status,
                 mergeSchemaProperty(existingSchema, incomingSchema,
                                     mapJsonSchema))
        ELSE IF ~Falsy(existingSchema)
        THEN Put(acc.result, status, existingSchema)
        ELSE IF ~Falsy(incomingSchema)
        THEN Put(acc.result, status, incomingSchema)
        ELSE acc.result,
     calls |-> acc.calls \o PropertyCalls(existingSchema, incomingSchema)]

\* schema = {...incoming} and the loop over Object.keys(existing)
MergeStatusMaps(e, i, mapJsonSchema, calls) ==
    LET ks == OrderedKeys(e)
        loop[n \in 0..Len(ks)] ==
            IF n = 0 THEN [result |-> i, calls |-> calls]
            ELSE MergeStatus(loop[n - 1], ks[n], Entry(e, ks[n]),
                             Entry(i, ks[n]), mapJsonSchema)
    IN loop[Len(ks)]

\* a single schema becomes { 200: schema }
WrapSingle(x) == IF IsSingleResponse(x) THEN ("200" :> x) ELSE x

\* mergeResponseSchema once both sides are unwrapped
MergeUnwrapped(e, i, mapJsonSchema, calls) ==
    IF Falsy(e) /\ Falsy(i) THEN [result |-> Undefined, calls |-> calls]
    ELSE IF Falsy(e) THEN [result |-> i, calls |-> calls]
    ELSE IF Falsy(i) THEN [result |-> e, calls |-> calls]
    ELSE MergeStatusMaps(WrapSingle(e), WrapSingle(i), mapJsonSchema, calls)

\* mergeResponseSchema with the unwrapSchema calls it made:
\* [result |-> the value returned, calls |-> <<[schema, io], ...>>]
mergeResponseSchemaRun(exist, incom, mapJsonSchema) ==
    IF Falsy(exist) THEN [result |-> incom, calls |-> <<>>]
    ELSE IF Falsy(incom) THEN [result |-> exist, calls |-> <<>>]
    ELSE MergeUnwrapped(unwrapResponseSchema(exist, mapJsonSchema),
                        unwrapResponseSchema(incom, mapJsonSchema),
                        mapJsonSchema,
                        UnwrapResponseCalls(exist)
                        \o UnwrapResponseCalls(incom))

mergeResponseSchema(exist, incom, mapJsonSchema) ==
    mergeResponseSchemaRun(exist, incom, mapJsonSchema).result

----------------------------------------------------------------------------
(* Guard flattening.  A hooks object is a record with the six slots (an    *)
(* absent slot is Undefined) and the guard chain standaloneValidator, a    *)
(* sequence of validators (records with the six slots).                    *)

\* the slots in the order the loop of mergeStandaloneValidators takes them
SlotOrder == <<"body", "headers", "query", "params", "cookie">>

SlotNames == Range(SlotOrder)

\* the closing normalisation of merged.response
NormalizeResponse(response) ==
    LET ks == OrderedKeys(response)
        each[n \in 0..Len(ks)] ==
            IF n = 0 THEN response
            ELSE IF IsString(Entry(response, ks[n]))
            THEN Put(each[n - 1], ks[n],
                     normalizeSchemaReference(Entry(response, ks[n])))
            ELSE each[n - 1]
    IN IF Falsy(response) \/ IsString(response) THEN response
       ELSE IF Has(response, "type") \/ Has(response, "$ref") THEN response
       ELSE each[Len(ks)]

\* the body of the loop of mergeStandaloneValidators for one validator;
\* acc is [result |-> merged so far, calls |-> the unwrapSchema calls so far]
\* and response the run of mergeResponseSchema on the two response slots
MergeValidator(acc, validator, response, mapJsonSchema) ==
    LET slotCalls[n \in 0..Len(SlotOrder)] ==
            IF n = 0 THEN acc.calls
            ELSE slotCalls[n - 1]
                 \o (IF Falsy(validator[SlotOrder[n]]) THEN <<>>
                     ELSE PropertyCalls(acc.result[SlotOrder[n]],
                                        validator[SlotOrder[n]]))
    IN [result |->
           [k \in DOMAIN acc.result |->
               IF k \in SlotNames /\ ~Falsy(validator[k])
               THEN mergeSchemaProperty(acc.result[k], validator[k],
                                        mapJsonSchema)
               ELSE IF k = "response" /\ ~Falsy(validator.response)
               THEN response.result
               ELSE acc.result[k]],
        calls |-> IF Falsy(validator.response) THEN slotCalls[Len(SlotOrder)]
                  ELSE slotCalls[Len(SlotOrder)] \o response.calls]

\* the loop of mergeStandaloneValidators over the guard chain
MergeValidators(h, mapJsonSchema) ==
    LET chain == h.standaloneValidator
        loop[n \in 0..Len(chain)] ==
            IF n = 0 THEN [result |-> h, calls |-> <<>>]
            ELSE MergeValidator(loop[n - 1], chain[n],
                     mergeResponseSchemaRun(loop[n - 1].result.response,
                                            chain[n].response, mapJsonSchema),
                     mapJsonSchema)
    IN loop[Len(chain)]

\* the closing normalisation of the string slots and of the response
NormalizeMerged(acc) ==
    [result |->
        [k \in DOMAIN acc.result |->
            IF k \in SlotNames /\ IsString(acc.result[k])
            THEN normalizeSchemaReference(acc.result[k])
            ELSE IF k = "response" THEN NormalizeResponse(acc.result.response)
            ELSE acc.result[k]],
     calls |-> acc.calls]

\* mergeStandaloneValidators with the unwrapSchema calls it made:
\* [result |-> merged hooks, calls |-> <<[schema, io], ...>>]
mergeStandaloneValidatorsRun(h, mapJsonSchema) ==
    IF Len(h.standaloneValidator) = 0 THEN [result |-> h, calls |-> <<>>]
    ELSE NormalizeMerged(MergeValidators(h, mapJsonSchema))

mergeStandaloneValidators(h, mapJsonSchema) ==
    mergeStandaloneValidatorsRun(h, mapJsonSchema).result

\* the map callback of flattenRoutes; run is mergeStandaloneValidators on
\* the route's hooks with the unwrapSchema calls it made
FlattenRoute(acc, r, run) ==
    [result |-> Append(acc.result,
                       IF Len(r.hooks.standaloneValidator) = 0 THEN r
                       ELSE [r EXCEPT !.hooks = run.result]),
     calls |-> acc.calls \o run.calls]

\* flattenRoutes with the unwrapSchema calls it made
flattenRoutesRun(rs, mapJsonSchema) ==
    LET each[n \in 0..Len(rs)] ==
            IF n = 0 THEN [result |-> <<>>, calls |-> <<>>]
            ELSE FlattenRoute(each[n - 1], rs[n],
                     mergeStandaloneValidatorsRun(rs[n].hooks, mapJsonSchema))
    IN each[Len(rs)]

flattenRoutes(rs, mapJsonSchema) == flattenRoutesRun(rs, mapJsonSchema).result

\* the warned flags after a sequence of unwrapSchema calls
WarnedAfterCalls(w, calls, mapJsonSchema) ==
    LET each[n \in 0..Len(calls)] ==
            IF n = 0 THEN w
            ELSE WarnedAfterUnwrap(each[n - 1], calls[n].schema,
                                   mapJsonSchema, calls[n].io)
    IN each[Len(calls)]

----------------------------------------------------------------------------
(* Paths.  A path string is modelled by its '/'-separated segments and by  *)
(* whether a '/' closes it: '/user/:id?/' is                               *)
(* [segs |-> <<[static |-> "user"], [param |-> "id", optional |-> TRUE]>>, *)
(*  slash |-> TRUE], '/' is [segs |-> <<>>, slash |-> TRUE] and '' is      *)
(* [segs |-> <<>>, slash |-> FALSE].  A segment of a document key, where   *)
(* ':name' has become '{name}', is [brace |-> name].                       *)

Static(name) == [static |-> name]

Param(name) == [param |-> name, optional |-> FALSE]

Optional(name) == [param |-> name, optional |-> TRUE]

PathOf(segs) == [segs |-> segs, slash |-> (segs = <<>>)]

\* word.charAt(0).toUpperCase() + word.slice(1), on the words of the model
CapitalOf ==
    [user |-> "User", id |-> "Id", x |-> "X", by |-> "By", name |-> "Name"]

\* a word left as it is
uncapitalized(word) == word

capitalize(word) == IF word \in DOMAIN CapitalOf THEN CapitalOf[word] ELSE word

\* method.toLowerCase(), on the method names of the model
LowerOf ==
    [GET |-> "get", POST |-> "post", PUT |-> "put", DELETE |-> "delete",
     PATCH |-> "patch", HEAD |-> "head", OPTIONS |-> "options",
     TRACE |-> "trace", ALL |-> "all", LOCK |-> "lock"]

toLowerCase(method) ==
    IF method \in DOMAIN LowerOf THEN LowerOf[method] ELSE method

\* the part of the operation id one path segment contributes, '?' already
\* replaced by 'Optional'
OperationIdPart(seg) ==
    IF Has(seg, "static") THEN capitalize(seg.static)
    ELSE IF seg.optional THEN "By" \o capitalize(seg.param) \o "Optional"
    ELSE "By" \o capitalize(seg.param)

toOperationId(method, path) ==
    LET parts[n \in 0..Len(path.segs)] ==
            IF n = 0 THEN toLowerCase(method)
            ELSE parts[n - 1] \o OperationIdPart(path.segs[n])
    IN IF path.segs = <<>> THEN toLowerCase(method) \o "Index"
       ELSE parts[Len(path.segs)]

\* a reading of a segment that takes none for optional
NeverOptional(seg) == FALSE

IsOptional(seg) == Has(seg, "param") /\ seg.optional

\* path.replace(optionalParam, ''): the first occurrence is removed
RemoveFirst(path, seg) ==
    LET at == CHOOSE n \in 1..Len(path.segs) :
                  /\ path.segs[n] = seg
                  /\ \A m \in 1..(n - 1) : path.segs[m] # seg
    IN [path EXCEPT !.segs = SubSeq(@, 1, at - 1) \o SubSeq(@, at + 1, Len(@))]

\* path.replace(/\?/g, '')
WithoutMarks(path) ==
    [path EXCEPT !.segs =
        [n \in 1..Len(@) |-> IF IsOptional(@[n]) THEN Param(@[n].param)
                             ELSE @[n]]]

RECURSIVE getPossiblePath(_)
getPossiblePath(path) ==
    LET optionalParams == SelectSeq(path.segs, IsOptional)
        found[n \in 0..Len(optionalParams)] ==
            IF n = 0 THEN <<WithoutMarks(path)>>
            ELSE found[n - 1]
                 \o getPossiblePath(RemoveFirst(path, optionalParams[n]))
    IN IF optionalParams = <<>> THEN <<path>>
       ELSE found[Len(optionalParams)]

getLoosePath(path) == [path EXCEPT !.slash = ~@]

\* path.replace(/:([^/]+)/g, '{$1}')
PathKey(path) ==
    [path EXCEPT !.segs =
        [n \in 1..Len(@) |-> IF Has(@[n], "param")
                             THEN [brace |-> @[n].param] ELSE @[n]]]

\* a reading of the path that finds no ':name' token
NoPathParameterNames(path) == <<>>

\* the names route.path.matchAll(/:([^/]+)/g) yields, '?' removed
PathParameterNames(path) ==
    LET isParam(seg) == Has(seg, "param")
        found == SelectSeq(path.segs, isParam)
    IN [n \in 1..Len(found) |-> found[n].param]

\* route.path.includes('.'), on the segment names of the model
DottedNames == {"app.js"}

IncludesDot(path) ==
    \E n \in 1..Len(path.segs) :
        Has(path.segs[n], "static") /\ path.segs[n].static \in DottedNames

----------------------------------------------------------------------------
(* Additional references.  A reference is Undefined, an object            *)
(* [table |-> path -> method -> record of slots] (an absent slot is        *)
(* Undefined), or a function [call |-> the object it returns] that         *)
(* toOpenAPISchema replaces by what it returns.                            *)

isValidSchema(schema) ==
    /\ ~Falsy(schema)
    /\ ~IsString(schema)
    /\ \/ Has(schema, "Kind") /\ schema.Kind # "Unknown"
       \/ Has(schema, "type")
       \/ Has(schema, "properties")
       \/ Has(schema, "items")

\* references[i] = reference() for every function in the collection
ResolveReferences(refs) ==
    [n \in 1..Len(refs) |-> IF Has(refs[n], "call") THEN refs[n].call
                            ELSE refs[n]]

\* reference[path]?.[method]
ReferAt(reference, path, method) ==
    IF Has(reference.table, path) /\ Has(reference.table[path], method)
    THEN reference.table[path][method]
    ELSE Undefined

\* reference[route.path]?.[method] ?? reference[getLoosePath(route.path)]?.[method]
Refer(reference, path, method) ==
    IF ReferAt(reference, path, method) # Undefined
    THEN ReferAt(reference, path, method)
    ELSE ReferAt(reference, getLoosePath(path), method)

\* hooks.response after one [status, schema] entry of refer.response
FillStatus(response, status, schema) ==
    IF ~isValidSchema(schema) THEN response
    ELSE IF Falsy(response) THEN Put(EmptyObject, status, schema)
    ELSE IF \/ IsString(response) \/ Has(response, "type")
            \/ Has(response, "$ref") \/ Has(response, "std")
    THEN IF status = "200" THEN ("200" :> response)
         ELSE Put(("200" :> response), status, schema)
    ELSE IF Falsy(Entry(response, status)) THEN Put(response, status, schema)
    ELSE response

\* hooks.response after the loop over Object.entries(refer.response)
FillResponse(response, referResponse) ==
    LET ks == OrderedKeys(referResponse)
        each[n \in 0..Len(ks)] ==
            IF n = 0 THEN response
            ELSE FillStatus(each[n - 1], ks[n], Entry(referResponse, ks[n]))
    IN IF Falsy(referResponse) THEN response ELSE each[Len(ks)]

FilledSlots == {"body", "query", "params", "headers"}

\* hooks after one reference that holds refer for the route
FillFrom(h, refer) ==
    [k \in DOMAIN h |->
        IF k \in FilledSlots /\ Falsy(h[k]) /\ isValidSchema(refer[k])
        THEN refer[k]
        ELSE IF k = "response" THEN FillResponse(h.response, refer.response)
        ELSE h[k]]

\* hooks after the loop over the references
FillFromReferences(h, refs, path, method) ==
    LET each[n \in 0..Len(refs)] ==
            IF n = 0 THEN h
            ELSE IF Falsy(refs[n]) THEN each[n - 1]
            ELSE IF Falsy(Refer(refs[n], path, method)) THEN each[n - 1]
            ELSE FillFrom(each[n - 1], Refer(refs[n], path, method))
    IN each[Len(refs)]

----------------------------------------------------------------------------
(* Building one operation *)

unwrapReference(schema, defs) ==
    IF Falsy(schema) \/ ~Has(schema, "$ref") THEN schema
    ELSE enumToOpenApi(
           IF Has(defs, schema["$ref"][Len(schema["$ref"])])
           THEN defs[schema["$ref"][Len(schema["$ref"])]]
           ELSE schema)

\* a reading of the schema that takes no name as required
NoRequiredNames(schema) == {}

\* schema.required || []
RequiredNames(schema) ==
    IF Has(schema, "required") THEN Range(schema.required) ELSE {}

\* schema.description, Undefined when absent
DescriptionOf(schema) ==
    IF Has(schema, "description") THEN Str(schema.description) ELSE Undefined

\* the parameters one slot contributes; schema is the slot after
\* unwrapSchema and unwrapReference
SlotParameters(schema, location) ==
    IF Falsy(schema) \/ TypeOf(schema) # "object" \/ ~Has(schema, "properties")
    THEN <<>>
    ELSE [n \in 1..Len(schema.properties) |->
             [name |-> schema.properties[n].k,
              in |-> location,
              required |-> \/ location = "path"
                           \/ schema.properties[n].k \in RequiredNames(schema),
              schema |-> schema.properties[n].v]]

\* the parameters synthesized from the raw path
SynthesizedParameters(path) ==
    [n \in 1..Len(PathParameterNames(path)) |->
        [name |-> PathParameterNames(path)[n],
         in |-> "path",
         required |-> TRUE,
         schema |-> [type |-> "string"]]]

\* the parameter slots in the order toOpenAPISchema takes them
Locations ==
    <<[slot |-> "params", in |-> "path"], [slot |-> "query", in |-> "query"],
      [slot |-> "headers", in |-> "header"],
      [slot |-> "cookie", in |-> "cookie"]>>

Parameters(h, path, mapJsonSchema, defs) ==
    LET each[n \in 0..Len(Locations)] ==
            IF n = 0
            THEN (IF Falsy(h.params) THEN SynthesizedParameters(path) ELSE <<>>)
            ELSE each[n - 1]
                 \o SlotParameters(
                        unwrapReference(
                            unwrapSchema(h[Locations[n].slot], mapJsonSchema,
                                         "input"),
                            defs),
                        Locations[n].in)
    IN each[Len(Locations)]

\* the switch on parser.fn
ContentTypeOf ==
    ("text" :> "text/plain") @@ ("text/plain" :> "text/plain")
    @@ ("urlencoded" :> "application/x-www-form-urlencoded")
    @@ ("application/x-www-form-urlencoded"
            :> "application/x-www-form-urlencoded")
    @@ ("json" :> "application/json")
    @@ ("application/json" :> "application/json")
    @@ ("formdata" :> "multipart/form-data")
    @@ ("multipart/form-data" :> "multipart/form-data")

\* a loop over hooks.parse that recognizes no parser name
NoParserContent(parsers) == {}

\* the keys of content after the loop over hooks.parse; a parser is
\* [fn |-> Str(name)] or [fn |-> [function |-> TRUE]]
ParserContent(parsers) ==
    {ContentTypeOf[parser.fn.string] :
        parser \in {q \in Range(parsers) :
                       /\ IsString(q.fn)
                       /\ q.fn.string \in DOMAIN ContentTypeOf}}

PrimitiveTypes == {"string", "number", "integer", "boolean"}

EmptyTypes == {"void", "null", "undefined"}

StructuredContent ==
    {"application/json", "application/x-www-form-urlencoded",
     "multipart/form-data"}

\* operation.requestBody; body is unwrapSchema(hooks.body) and resolved is
\* unwrapReference(body)
RequestBody(h, body, resolved) ==
    [description |-> DescriptionOf(resolved),
     required |-> TRUE,
     content |->
        [key \in (IF Has(h, "parse") THEN ParserContent(h.parse)
                  ELSE IF TypeOf(resolved) \in PrimitiveTypes
                  THEN {"text/plain"}
                  ELSE StructuredContent) |-> [schema |-> body]]]

\* operation.responses[status]; response is unwrapSchema of the entry and
\* resolved is unwrapReference(response)
ResponseEntry(status, response, resolved) ==
    [description |-> IF Has(resolved, "description") THEN resolved.description
                     ELSE "Response for status " \o status,
     content |->
        IF TypeOf(resolved) \in EmptyTypes
        THEN [type |-> TypeOf(resolved),
              description |-> DescriptionOf(resolved)]
        ELSE IF TypeOf(resolved) \in PrimitiveTypes
        THEN ("text/plain" :> [schema |-> response])
        ELSE ("application/json" :> [schema |-> response])]

AddResponse(responses, status, response, defs) ==
    IF Falsy(response) THEN responses
    ELSE With(responses, status,
              ResponseEntry(status, response,
                            unwrapReference(response, defs)))

\* typeof response === 'object' && !response.type && !response.$ref
\* && !response['~standard']
IsStatusMap(response) ==
    /\ ~IsString(response)
    /\ ~Has(response, "type")
    /\ ~Has(response, "$ref")
    /\ ~Has(response, "std")

\* operation.responses for a truthy hooks.response; the single schema is
\* taken like the one entry of the map { 200: response }
Responses(response, mapJsonSchema, defs) ==
    LET source == IF IsStatusMap(response) THEN response
                  ELSE ("200" :> response)
        ks == OrderedKeys(source)
        each[n \in 0..Len(ks)] ==
            IF n = 0 THEN EmptyObject
            ELSE AddResponse(each[n - 1], ks[n],
                     unwrapSchema(Entry(source, ks[n]), mapJsonSchema,
                                  "output"),
                     defs)
    IN each[Len(ks)]

WithParameters(built, parameters) ==
    IF Len(parameters) > 0 THEN With(built, "parameters", parameters)
    ELSE built

\* body is unwrapSchema(hooks.body), taken only when the first three
\* conditions hold
WithRequestBody(built, h, method, body, defs) ==
    IF ~Falsy(h.body) /\ method # "get" /\ method # "head" /\ ~Falsy(body)
    THEN With(built, "requestBody",
              RequestBody(h, body, unwrapReference(body, defs)))
    ELSE built

WithResponses(built, h, mapJsonSchema, defs) ==
    IF Falsy(h.response) THEN built
    ELSE With(built, "responses",
              Responses(h.response, mapJsonSchema, defs))

\* the operation object of one route, before operationId
Operation(h, path, method, mapJsonSchema, defs) ==
    WithResponses(
        WithRequestBody(
            WithParameters(h.detail,
                           Parameters(h, path, mapJsonSchema, defs)),
            h, method, unwrapSchema(h.body, mapJsonSchema, "input"),
            defs),
        h, mapJsonSchema, defs)

\* an expansion into two verbs only
FewVerbs == <<"get", "post">>

\* the unwrapSchema calls of one route's operation, in order
OperationCalls(h, method) ==
    LET call(v, io) == IF Falsy(v) THEN <<>> ELSE <<[schema |-> v, io |-> io]>>
        source == IF IsStatusMap(h.response) THEN h.response
                  ELSE ("200" :> h.response)
        ks == OrderedKeys(source)
        each[n \in 0..Len(ks)] ==
            IF n = 0 THEN <<>>
            ELSE each[n - 1] \o call(Entry(source, ks[n]), "output")
    IN call(h.params, "input") \o call(h.query, "input")
       \o call(h.headers, "input") \o call(h.cookie, "input")
       \o (IF method # "get" /\ method # "head" THEN call(h.body, "input")
           ELSE <<>>)
       \o (IF Falsy(h.response) THEN <<>> ELSE each[Len(ks)])

Verbs ==
    <<"get", "post", "put", "delete", "patch", "head", "options", "trace">>

\* a write that would keep the entry a path already has under a method
KeepFirst(doc, key, methods, built) ==
    With(doc, key,
         [m \in (IF Has(doc, key) THEN DOMAIN doc[key] ELSE {}) \cup methods |->
             IF Has(doc, key) /\ m \in DOMAIN doc[key] THEN doc[key][m]
             ELSE built])

\* current[method] = operation for every method of methods, under paths[key]
WriteOperation(doc, key, methods, built) ==
    With(doc, key,
         [m \in (IF Has(doc, key) THEN DOMAIN doc[key] ELSE {}) \cup methods |->
             IF m \in methods THEN built ELSE doc[key][m]])

\* an identifier synthesized whatever the detail holds
SynthesizedId(h, method, path) == toOperationId(method, path)

\* hooks.detail?.operationId ?? toOperationId(route.method, path)
OperationIdOf(h, method, path) ==
    IF Has(h.detail, "operationId") THEN h.detail.operationId
    ELSE toOperationId(method, path)

\* the loop over getPossiblePath(route.path)
WritePaths(doc, r, h, method, built) ==
    LET possible == getPossiblePath(r.path)
        each[n \in 0..Len(possible)] ==
            IF n = 0 THEN doc
            ELSE WriteOperation(each[n - 1], PathKey(possible[n]),
                     IF method = "all" THEN Range(Verbs) ELSE {method},
                     With(built, "operationId",
                          OperationIdOf(h, r.method, possible[n])))
    IN each[Len(possible)]

----------------------------------------------------------------------------
(* The exclusion rules.  exclude is the caller's object: each of methods,  *)
(* staticFile, tags and paths may be absent.                               *)

ExcludeMethods(ex) ==
    IF Has(ex, "methods")
    THEN {toLowerCase(ex.methods[n]) : n \in 1..Len(ex.methods)}
    ELSE {"options"}

ExcludeStaticFile(ex) ==
    IF Has(ex, "staticFile") THEN ex.staticFile ELSE TRUE

\* excludePaths.includes(route.path)
ExcludePaths(ex) ==
    IF Has(ex, "paths") THEN Range(ex.paths) ELSE {}

Hidden(r) == Has(r.hooks.detail, "hide") /\ r.hooks.detail.hide

Excluded(r, ex) ==
    \/ ExcludeStaticFile(ex) /\ IncludesDot(r.path)
    \/ r.path \in ExcludePaths(ex)
    \/ toLowerCase(r.method) \in ExcludeMethods(ex)

TagExcluded(h, ex) ==
    /\ Has(ex, "tags")
    /\ Has(h.detail, "tags")
    /\ Range(h.detail.tags) \cap Range(ex.tags) # {}

----------------------------------------------------------------------------
(* What a generation pass writes into the application's own objects.  An  *)
(* unguarded route is handed to the loop as it is, so every assignment to  *)
(* hooks lands in the registry.  A guarded route gets a copy of its hooks, *)
(* but the copy's response can still be an object of the registry: the     *)
(* route's own response when no guard declares one, or the response of the *)
(* only guard that declares one when the route declares none.  A status    *)
(* map is then updated in place.                                           *)

\* the guards of h that declare a response
Responding(h) ==
    {n \in 1..Len(h.standaloneValidator) :
        ~Falsy(h.standaloneValidator[n].response)}

\* the registry once the shared response object of route i holds response
ShareBack(reg, i, response) ==
    LET h == reg[i].hooks
        only == CHOOSE n \in Responding(h) : TRUE
    IN IF ~Falsy(h.response) /\ Responding(h) = {}
       THEN IF IsStatusMap(h.response)
            THEN [reg EXCEPT ![i].hooks.response = response]
            ELSE reg
       ELSE IF Falsy(h.response) /\ Cardinality(Responding(h)) = 1
       THEN IF IsStatusMap(h.standaloneValidator[only].response)
            THEN [reg EXCEPT
                    ![i].hooks.standaloneValidator[only].response = response]
            ELSE reg
       ELSE reg

\* a flattenRoutes that would write the merged hooks into the routes it is
\* given
FlattenedInPlace(reg, flattened) == flattened

\* the registry after flattenRoutes returned flattened
RegistryAfterFlatten(reg, flattened) ==
    LET each[n \in 0..Len(reg)] ==
            IF n = 0 THEN reg
            ELSE IF Len(reg[n].hooks.standaloneValidator) = 0 THEN each[n - 1]
            ELSE ShareBack(each[n - 1], n, flattened[n].hooks.response)
    IN each[Len(reg)]

\* the registry after the references filled the hooks of flattened route i
RegistryAfterFill(reg, i, before, filled) ==
    IF Len(reg[i].hooks.standaloneValidator) = 0
    THEN [reg EXCEPT ![i].hooks = filled]
    ELSE IF ~Falsy(before.response) /\ IsStatusMap(before.response)
    THEN ShareBack(reg, i, filled.response)
    ELSE reg

\* components.schemas
Schemas(defs, mapJsonSchema) ==
    [name \in {n \in DOMAIN defs :
                  ~Falsy(unwrapSchema(defs[n], mapJsonSchema, "input"))} |->
        unwrapSchema(defs[name], mapJsonSchema, "input")]

SchemasCalls(defs) ==
    LET ks == SetToSeq(DOMAIN defs)
    IN [n \in 1..Len(ks) |-> [schema |-> defs[ks[n]], io |-> "input"]]

----------------------------------------------------------------------------
(* The schemas the merges are checked on *)

P(key, value) == [k |-> key, v |-> value]

\* t.Object({ id: t.Number() })
ObjIdNumber == TObject(<<P("id", TNumber)>>, <<"id">>)

\* t.Object({ id: t.String(), name: t.String() }, { additionalProperties: false })
ObjIdString ==
    With(TObject(<<P("id", TString), P("name", TString)>>, <<"id", "name">>),
         "additionalProperties", FALSE)

\* t.Object({ name: t.Optional(t.Number()) }, { additionalProperties: true })
ObjNameOptional ==
    With(TObject(<<P("name", TNumber)>>, <<>>), "additionalProperties", TRUE)

\* t.Object({ name: t.String(), age: t.Number() })
ObjNameAge ==
    TObject(<<P("name", TString), P("age", TNumber)>>, <<"name", "age">>)

\* t.Union([t.Literal('a'), t.Literal('b')])
UnionAB == TUnion(<<TLiteral("a"), TLiteral("b")>>)

\* the plain JSON Schema a vendor conversion produces for z.object({ name })
JsonObject ==
    [type |-> "object",
     properties |-> <<P("name", [type |-> "string"])>>,
     required |-> <<"name">>]

JsonString == [type |-> "string"]

\* a Zod 4 schema: no JSON Schema method of its own
ZodSchema == [std |-> [vendor |-> "zod"], _zod |-> TRUE]

\* a schema whose vendor implements '~standard'.jsonSchema
NativeSchema ==
    [std |-> [vendor |-> "valibot",
              jsonSchema |-> [input |-> Returns(JsonString),
                              output |-> Returns(JsonString)]]]

\* a schema whose native conversion throws
ThrowingNative ==
    [std |-> [vendor |-> "valibot",
              jsonSchema |-> [input |-> Throws, output |-> Throws]]]

\* a schema whose toJsonSchema method throws
ThrowingMethod == [std |-> [vendor |-> "arktype"], toJsonSchema |-> Throws]

ThrowingSchemas == {ThrowingNative, ThrowingMethod}

ObjectSchemas == {ObjIdNumber, ObjIdString, ObjNameOptional, ObjNameAge}

NonObjectSchemas == {TString, UnionAB, TRef(<<"User">>)}

VendorSchemas == {ZodSchema, NativeSchema}

Names == {Str("User")}

SlotValues ==
    {Undefined} \cup Names \cup ObjectSchemas \cup NonObjectSchemas
    \cup VendorSchemas

StatusMaps ==
    {("200" :> ObjIdNumber),
     ("401" :> Str("Error")) @@ ("500" :> Str("Error")),
     ("200" :> ObjNameAge) @@ ("401" :> TString),
     ("200" :> ZodSchema)}

ResponseValues == SlotValues \cup StatusMaps

\* mapJsonSchema: none, or { zod: z.toJSONSchema }
VendorMaps ==
    {EmptyObject,
     [zod |-> [isFunction |-> TRUE, outcome |-> Returns(JsonObject)]],
     [zod |-> [isFunction |-> TRUE, outcome |-> Throws]]}

\* the hooks of a route, every slot absent and no guard
NoSchema ==
    [body |-> Undefined, headers |-> Undefined, query |-> Undefined,
     params |-> Undefined, cookie |-> Undefined, response |-> Undefined]

NoHooks == NoSchema @@ [standaloneValidator |-> <<>>]

MaxGuards == 2

RouteBodies == {Undefined, ObjIdNumber, Str("User")}

RouteResponses == {Undefined, ObjIdNumber, ZodSchema,
                   ("200" :> Str("User")) @@ ("401" :> TString)}

GuardBodies == {Undefined, ObjIdString, ObjNameOptional, TString}

GuardResponses == {Undefined, ("401" :> Str("Error")) @@ ("500" :> Str("Error")),
                   ObjNameAge}

Validators ==
    {[NoSchema EXCEPT !.body = b, !.response = r] :
        b \in GuardBodies, r \in GuardResponses}

GuardChains ==
    UNION {[1..n -> Validators] : n \in 0..MaxGuards}

HookInputs ==
    {[NoHooks EXCEPT !.body = b, !.response = r, !.standaloneValidator = c] :
        b \in RouteBodies, r \in RouteResponses, c \in GuardChains}

\* no call of toOpenAPISchema has returned yet
FirstPass ==
    /\ pass = 1
    /\ document = Undefined

\* declarationToJSONSchema has not been called
MinerIdle ==
    /\ code = <<>>
    /\ cursor = 1
    /\ results = <<>>
    /\ taken = 0
    /\ mined = EmptyObject
    /\ stage = "idle"

----------------------------------------------------------------------------
(* The merge engine applied to drawn arguments *)

InitMerge ==
    /\ vendors \in VendorMaps
    /\ \/ /\ existing \in ResponseValues
          /\ incoming \in ResponseValues
          /\ localHook = NoHooks
       \/ /\ existing = Undefined
          /\ incoming = Undefined
          /\ localHook \in HookInputs
    /\ merged = Undefined
    /\ op = "init"
    /\ warned = {}
    /\ registry = <<>>
    /\ definitions = EmptyObject
    /\ references = <<>>
    /\ exclude = EmptyObject
    /\ pc = "idle"
    /\ routes = <<>>
    /\ index = 1
    /\ route = Undefined
    /\ operation = Undefined
    /\ paths = EmptyObject
    /\ components = EmptyObject
    /\ callee = "none"
    /\ arguments = Undefined
    /\ returned = Undefined
    /\ history = <<>>
    /\ MinerIdle
    /\ FirstPass

\* the merge returned run.result after the unwrapSchema calls run.calls
Returned(name, run) ==
    /\ merged' = run.result
    /\ warned' = WarnedAfterCalls(warned, run.calls, vendors)
    /\ op' = name
    /\ UNCHANGED <<existing, incoming, localHook, vendors, genVars, callVars,
                   minerVars, passVars>>

MergeSchemaProperty ==
    /\ op = "init"
    /\ localHook = NoHooks
    /\ existing \in SlotValues
    /\ incoming \in SlotValues
    /\ Returned("mergeSchemaProperty",
                [result |-> mergeSchemaProperty(existing, incoming, vendors),
                 calls |-> PropertyCalls(existing, incoming)])

MergeResponseSchema ==
    /\ op = "init"
    /\ localHook = NoHooks
    /\ Returned("mergeResponseSchema",
                mergeResponseSchemaRun(existing, incoming, vendors))

MergeStandaloneValidators ==
    /\ op = "init"
    /\ localHook # NoHooks
    /\ Returned("mergeStandaloneValidators",
                mergeStandaloneValidatorsRun(localHook, vendors))

NextMerge ==
    \/ MergeSchemaProperty
    \/ MergeResponseSchema
    \/ MergeStandaloneValidators

SpecMerge == InitMerge /\ [][NextMerge]_vars

----------------------------------------------------------------------------
(* The applications toOpenAPISchema is checked on *)

\* app.model({ User: t.Object({ name, age }), Text: t.String() })
Definitions == [User |-> ObjNameAge, Text |-> TString]

\* '/x'
PathX == PathOf(<<Static("x")>>)

\* '/x/'
PathXSlash == [segs |-> <<Static("x")>>, slash |-> TRUE]

\* '/user/:id'
PathUserId == PathOf(<<Static("user"), Param("id")>>)

\* '/user/:user?/id/:id?'
PathOptional ==
    PathOf(<<Static("user"), Optional("user"), Static("id"), Optional("id")>>)

\* '/user/:id?'
PathUserMaybe == PathOf(<<Static("user"), Optional("id")>>)

\* '/'
PathRoot == PathOf(<<>>)

\* '/app.js'
PathStatic == PathOf(<<Static("app.js")>>)

BaseHooks == NoHooks @@ [detail |-> EmptyObject]

Route(method, path, h) == [method |-> method, path |-> path, hooks |-> h]

Parser(name) == [fn |-> Str(name)]

FunctionParser == [fn |-> [function |-> TRUE]]

\* hooks.parse: absent, or a list of parsers
ParseOptions ==
    {EmptyObject,
     [parse |-> <<Parser("json")>>],
     [parse |-> <<FunctionParser, Parser("text"), Parser("formdata"),
                  Parser("multipart/form-data"), Parser("arrayBuffer")>>]}

BodyValues ==
    {ObjIdNumber, TString, Str("User"), Str("Text"), Str("Missing"),
     ZodSchema}

BodyRoutes ==
    {Route(method, PathX, [BaseHooks EXCEPT !.body = b] @@ parse) :
        method \in {"POST", "GET", "HEAD", "ALL"},
        b \in BodyValues, parse \in ParseOptions}

ParameterRoutes ==
    {Route("GET", path,
           [BaseHooks EXCEPT !.params = p, !.query = q,
                             !.headers = hc[1], !.cookie = hc[2]]) :
        path \in {PathOptional, PathUserId, PathRoot},
        p \in {Undefined, ObjIdNumber, ObjNameOptional, Str("User")},
        q \in {Undefined, ObjNameOptional, ObjNameAge},
        hc \in {<<Undefined, Undefined>>, <<ObjIdString, ObjNameOptional>>}}

ResponseOptions ==
    {TVoid, TNull, TUndefined, ObjIdNumber, TString, Str("User"),
     Str("Text"), UnionAB, ZodSchema, NativeSchema,
     ("200" :> ObjIdNumber) @@ ("204" :> TVoid),
     ("200" :> Str("User")) @@ ("401" :> TNull),
     ("401" :> Str("Text")) @@ ("500" :> TUndefined)}

ResponseRoutes ==
    {Route("GET", PathX, [BaseHooks EXCEPT !.response = r]) :
        r \in ResponseOptions}

GuardedRoutes ==
    {Route("POST", PathX,
           [BaseHooks EXCEPT !.body = b, !.response = r,
                             !.standaloneValidator = c]) :
        b \in {Undefined, ObjIdNumber},
        r \in {Undefined, ObjIdNumber, ("200" :> Str("User"))},
        c \in {<<[NoSchema EXCEPT !.body = ObjIdString]>>,
               <<[NoSchema EXCEPT !.body = Str("User")]>>,
               <<[NoSchema EXCEPT !.response =
                     ("401" :> Str("Text")) @@ ("500" :> Str("Text"))]>>,
               <<[NoSchema EXCEPT !.body = ObjNameOptional],
                 [NoSchema EXCEPT !.params = ObjIdNumber,
                                  !.response = ("204" :> TVoid)]>>}}

\* routes that declare a vendor schema whose conversion may throw
ThrowingRoutes ==
    {Route("POST", PathUserId,
           [BaseHooks EXCEPT !.body = pair[1], !.params = pair[2],
                             !.query = pair[2], !.response = pair[3]]) :
        pair \in {<<t, ObjIdNumber, TString>> :
                     t \in ThrowingSchemas \cup {ZodSchema}}
                 \cup {<<ObjIdNumber, t, ("200" :> t) @@ ("401" :> TString)>> :
                          t \in ThrowingSchemas \cup {ZodSchema}}
                 \cup {<<Undefined, Undefined, t>> : t \in ThrowingSchemas}}
    \cup {Route("POST", PathX,
                [BaseHooks EXCEPT
                    !.standaloneValidator = <<[NoSchema EXCEPT !.body = t]>>]) :
             t \in ThrowingSchemas}

DetailRoutes ==
    {Route("GET", PathX, [BaseHooks EXCEPT !.detail = [hide |-> TRUE]]),
     Route("GET", PathX,
           [BaseHooks EXCEPT !.detail = [tags |-> <<"internal">>]]),
     Route("GET", PathUserId,
           [BaseHooks EXCEPT !.detail = [operationId |-> "findUser"]]),
     Route("ALL", PathOptional,
           [BaseHooks EXCEPT !.detail = [operationId |-> "anyUser"]]),
     Route("LOCK", PathX, BaseHooks),
     Route("OPTIONS", PathX, BaseHooks),
     Route("GET", PathStatic, BaseHooks),
     Route("POST", PathXSlash, BaseHooks),
     Route("POST", PathRoot, [BaseHooks EXCEPT !.body = ObjIdNumber])}

SingleRoutes ==
    BodyRoutes \cup ParameterRoutes \cup ResponseRoutes \cup GuardedRoutes
    \cup ThrowingRoutes \cup DetailRoutes

\* the routes of the applications that register several
FewRoutes ==
    {Route("GET", PathX, [BaseHooks EXCEPT !.response = Str("User")]),
     Route("ALL", PathX, [BaseHooks EXCEPT !.body = ObjIdNumber]),
     Route("GET", PathOptional, BaseHooks),
     Route("GET", PathUserId, [BaseHooks EXCEPT !.params = ObjIdNumber]),
     Route("GET", PathUserMaybe, [BaseHooks EXCEPT !.response = TString]),
     Route("LOCK", PathX, BaseHooks)}

MaxRoutes == 2

Registries ==
    {<<r>> : r \in SingleRoutes}
    \cup UNION {[1..n -> FewRoutes] : n \in 2..MaxRoutes}

\* what one reference holds for one path and method
ReferX ==
    [NoSchema EXCEPT
        !.body = ObjNameAge,
        !.query = ObjNameAge,
        !.response = ("200" :> ObjNameAge) @@ ("404" :> TString)]

ReferLoose ==
    [NoSchema EXCEPT
        !.body = TString,
        !.headers = ObjIdString,
        !.query = EmptyObject,
        !.response = ("200" :> TString) @@ ("500" :> TString)]

ReferUser == [NoSchema EXCEPT !.params = ObjIdString]

ReferenceA ==
    [table |->
        (PathX :> [post |-> ReferX, get |-> ReferX])
        @@ (PathUserId :> [get |-> ReferUser])]

\* keyed by '/x/' and '/user/:id/': found through getLoosePath
ReferenceB ==
    [table |->
        (PathXSlash :> [post |-> ReferLoose, get |-> ReferLoose])
        @@ (getLoosePath(PathUserId) :> [get |-> ReferUser])]

ReferenceLists ==
    {<<>>, <<ReferenceA>>, <<ReferenceA, ReferenceB>>,
     <<ReferenceB, ReferenceA>>, <<Undefined, [call |-> ReferenceB]>>}

\* a regular expression, by the paths of the applications it matches:
\* /^\/x/
RegExpX == [regexp |-> {PathX, PathXSlash}]

ExcludeOptions ==
    {EmptyObject,
     [methods |-> <<"HEAD">>],
     [paths |-> <<RegExpX>>],
     [tags |-> <<"internal">>, staticFile |-> FALSE, paths |-> <<PathRoot>>]}

----------------------------------------------------------------------------
(* toOpenAPISchema, one action per step *)

Init ==
    /\ vendors \in VendorMaps
    /\ registry \in Registries
    /\ definitions = Definitions
    /\ references \in ReferenceLists
    /\ exclude \in ExcludeOptions
    /\ warned = {}
    /\ pc = "idle"
    /\ routes = <<>>
    /\ index = 1
    /\ route = Undefined
    /\ operation = Undefined
    /\ paths = EmptyObject
    /\ components = EmptyObject
    /\ callee = "none"
    /\ arguments = Undefined
    /\ returned = Undefined
    /\ history = <<>>
    /\ MinerIdle
    /\ FirstPass
    /\ existing = Undefined
    /\ incoming = Undefined
    /\ localHook = NoHooks
    /\ merged = Undefined
    /\ op = "init"

\* flattenRoutes returned run.result after the unwrapSchema calls run.calls
Flattened(run) ==
    /\ routes' = run.result
    /\ registry' = RegistryAfterFlatten(registry, run.result)
    /\ warned' = WarnedAfterCalls(warned, run.calls, vendors)

\* the call of toOpenAPISchema up to its route loop
Begin ==
    /\ pc = "idle"
    /\ references' = ResolveReferences(references)
    /\ Flattened(flattenRoutesRun(registry, vendors))
    /\ paths' = EmptyObject
    /\ index' = 1
    /\ pc' = "loop"
    /\ UNCHANGED <<callVars, minerVars, passVars, mergeVars, vendors,
                   definitions, exclude, route, operation, components>>

\* an iteration that leaves at one of the first two continue statements
SkipRoute ==
    /\ pc = "loop"
    /\ index <= Len(routes)
    /\ Hidden(routes[index]) \/ Excluded(routes[index], exclude)
    /\ route' = routes[index]
    /\ operation' = Undefined
    /\ index' = index + 1
    /\ UNCHANGED <<callVars, minerVars, passVars, mergeVars, vendors, warned,
                   registry, definitions, references, exclude, pc, routes,
                   paths, components>>

\* the references filled the hooks of routes[index]
Filled(h) ==
    /\ route' = [routes[index] EXCEPT !.hooks = h]
    /\ routes' = [routes EXCEPT ![index].hooks = h]
    /\ registry' = RegistryAfterFill(registry, index, routes[index].hooks, h)

\* an iteration that leaves at the continue of the excluded tags
SkipTaggedRoute ==
    /\ pc = "loop"
    /\ index <= Len(routes)
    /\ ~Hidden(routes[index]) /\ ~Excluded(routes[index], exclude)
    /\ Filled(FillFromReferences(routes[index].hooks, references,
                                 routes[index].path,
                                 toLowerCase(routes[index].method)))
    /\ TagExcluded(route'.hooks, exclude)
    /\ operation' = Undefined
    /\ index' = index + 1
    /\ UNCHANGED <<callVars, minerVars, passVars, mergeVars, vendors, warned,
                   definitions, references, exclude, pc, paths, components>>

\* the iteration built the operation and wrote it under every path and method
Built(h, method) ==
    /\ operation' = Operation(h, routes[index].path, method, vendors,
                              definitions)
    /\ paths' = WritePaths(paths, routes[index], h, method, operation')
    /\ warned' = WarnedAfterCalls(warned, OperationCalls(h, method), vendors)

\* an iteration that emits the route
EmitRoute ==
    /\ pc = "loop"
    /\ index <= Len(routes)
    /\ ~Hidden(routes[index]) /\ ~Excluded(routes[index], exclude)
    /\ Filled(FillFromReferences(routes[index].hooks, references,
                                 routes[index].path,
                                 toLowerCase(routes[index].method)))
    /\ ~TagExcluded(route'.hooks, exclude)
    /\ Built(route'.hooks, toLowerCase(routes[index].method))
    /\ index' = index + 1
    /\ UNCHANGED <<callVars, minerVars, passVars, mergeVars, vendors,
                   definitions, references, exclude, pc, components>>

\* the loop is over: components.schemas is built and the document returned
Return ==
    /\ pc = "loop"
    /\ index > Len(routes)
    /\ components' = Schemas(definitions, vendors)
    /\ warned' = WarnedAfterCalls(warned, SchemasCalls(definitions), vendors)
    /\ pc' = "done"
    /\ UNCHANGED <<callVars, minerVars, passVars, mergeVars, vendors, registry,
                   definitions, references, exclude, routes, index, route,
                   operation, paths>>

\* the caller keeps the document and calls toOpenAPISchema once more on the
\* same application, with the same exclusion rules, references collection
\* and converters: the locals are new, the registry, the collection and the
\* warned flags are what the first call left
CallAgain ==
    /\ pc = "done"
    /\ pass = 1
    /\ document' = [paths |-> paths, components |-> components]
    /\ pass' = 2
    /\ pc' = "idle"
    /\ routes' = <<>>
    /\ index' = 1
    /\ route' = Undefined
    /\ operation' = Undefined
    /\ paths' = EmptyObject
    /\ components' = EmptyObject
    /\ UNCHANGED <<callVars, minerVars, mergeVars, vendors, warned, registry,
                   definitions, references, exclude>>

Next ==
    \/ Begin
    \/ SkipRoute
    \/ SkipTaggedRoute
    \/ EmitRoute
    \/ Return
    \/ CallAgain

Spec == Init /\ [][Next]_vars

----------------------------------------------------------------------------
(* The helper functions applied on their own to drawn arguments *)

MaxSegments == 3

MaxDepth == 2

\* the segments the drawn path patterns are made of
Segments ==
    {Static("user"), Static("by"), Static("id"), Param("id"),
     Optional("user"), Optional("id")}

\* every pattern of at most MaxSegments segments, closed by '/' or not:
\* '' and '/' are the two patterns without a segment
PathPatterns ==
    {[segs |-> segs, slash |-> slash] :
        segs \in UNION {[1..n -> Segments] : n \in 0..MaxSegments},
        slash \in BOOLEAN}

Methods == {"GET", "POST"}

\* t.Array(items)
TArray(items) == [Kind |-> "Array", type |-> "array", items |-> items]

\* t.Union([t.Literal('a'), t.String()])
UnionMixed == TUnion(<<TLiteral("a"), TString>>)

\* a union without members
UnionEmpty == TUnion(<<>>)

\* t.Union([t.Union([t.Literal('a'), t.Literal('b')]), t.String()])
UnionNested == TUnion(<<UnionAB, TString>>)

\* the schemas enumToOpenApi is applied to: unions, and objects and arrays
\* nesting them up to MaxDepth
EnumSchemas ==
    LET level[d \in 0..MaxDepth] ==
            IF d = 0
            THEN {UnionAB, UnionMixed, UnionEmpty, UnionNested, TString}
            ELSE level[d - 1]
                 \cup {TArray(s) : s \in level[d - 1]}
                 \cup {[type |-> "object",
                        properties |-> <<P("name", TString), P("gender", s)>>] :
                          s \in level[d - 1]}
                 \cup {TObject(<<P("a", s)>>, <<"a">>) : s \in level[d - 1]}
                 \cup {TObject(<<P("a", TNumber), P("b", s)>>, <<>>) :
                          s \in level[d - 1]}
    IN level[MaxDepth]

InitCall ==
    /\ callee = "none"
    /\ arguments \in {[path |-> p] : p \in PathPatterns}
                     \cup {[method |-> m, path |-> p] :
                              m \in Methods, p \in PathPatterns}
                     \cup {[schema |-> x] : x \in EnumSchemas}
    /\ returned = Undefined
    /\ history = <<>>
    /\ MinerIdle
    /\ FirstPass
    /\ vendors = EmptyObject
    /\ warned = {}
    /\ existing = Undefined
    /\ incoming = Undefined
    /\ localHook = NoHooks
    /\ merged = Undefined
    /\ op = "init"
    /\ registry = <<>>
    /\ definitions = EmptyObject
    /\ references = <<>>
    /\ exclude = EmptyObject
    /\ pc = "idle"
    /\ routes = <<>>
    /\ index = 1
    /\ route = Undefined
    /\ operation = Undefined
    /\ paths = EmptyObject
    /\ components = EmptyObject

\* the function named name returned value
Called(name, value) ==
    /\ callee = "none"
    /\ callee' = name
    /\ returned' = value
    /\ UNCHANGED <<arguments, history, mergeVars, vendors, warned, genVars,
                   minerVars, passVars>>

GetPossiblePath ==
    /\ DOMAIN arguments = {"path"}
    /\ Called("getPossiblePath", getPossiblePath(arguments.path))

ToOperationId ==
    /\ DOMAIN arguments = {"method", "path"}
    /\ Called("toOperationId",
              toOperationId(arguments.method, arguments.path))

EnumToOpenApi ==
    /\ DOMAIN arguments = {"schema"}
    /\ Called("enumToOpenApi", enumToOpenApi(arguments.schema))

NextCall ==
    \/ GetPossiblePath
    \/ ToOperationId
    \/ EnumToOpenApi

SpecCall == InitCall /\ [][NextCall]_vars

----------------------------------------------------------------------------
(* unwrapSchema applied again and again in one process *)

MaxCalls == 2

\* a vendor schema: '~standard' with the vendor's name
Vendor(name) == [std |-> [vendor |-> name]]

\* the schema with the method named method, whose call ends in outcome
WithMethod(schema, method, outcome) == With(schema, method, outcome)

\* the schema with '~standard'.jsonSchema, each conversion ending in outcome
WithNative(schema, outcome) ==
    [schema EXCEPT !.std = With(@, "jsonSchema", [input |-> outcome,
                                                  output |-> outcome])]

JsonNumber == [type |-> "number"]

\* the vendor schemas unwrapSchema is applied to
UnwrapSchemas ==
    {ZodSchema, Vendor("zod"), Vendor("valibot"), Vendor("effect"),
     Vendor("yup"), NativeSchema,
     WithNative(Vendor("zod"), Throws),
     WithMethod(ZodSchema, "toJSONSchema", Returns(JsonString)),
     WithMethod(Vendor("valibot"), "toJSONSchema", Throws),
     WithMethod(Vendor("arktype"), "toJsonSchema", Returns(JsonString)),
     WithMethod(NativeSchema, "toJSONSchema", Returns(JsonNumber))}

\* the converters the caller passes
UnwrapMaps ==
    {EmptyObject,
     [zod |-> [isFunction |-> TRUE, outcome |-> Returns(JsonObject)],
      valibot |-> [isFunction |-> TRUE, outcome |-> Returns(JsonObject)]],
     [zod |-> [isFunction |-> TRUE, outcome |-> Throws],
      valibot |-> [isFunction |-> FALSE, outcome |-> Throws]]}

InitUnwrap ==
    /\ callee = "none"
    /\ arguments = Undefined
    /\ returned = Undefined
    /\ history = <<>>
    /\ MinerIdle
    /\ FirstPass
    /\ vendors = EmptyObject
    /\ warned = {}
    /\ existing = Undefined
    /\ incoming = Undefined
    /\ localHook = NoHooks
    /\ merged = Undefined
    /\ op = "init"
    /\ registry = <<>>
    /\ definitions = EmptyObject
    /\ references = <<>>
    /\ exclude = EmptyObject
    /\ pc = "idle"
    /\ routes = <<>>
    /\ index = 1
    /\ route = Undefined
    /\ operation = Undefined
    /\ paths = EmptyObject
    /\ components = EmptyObject

\* one call unwrapSchema(schema, mapJsonSchema, io)
UnwrapSchema ==
    /\ Len(history) < MaxCalls
    /\ \E schema \in UnwrapSchemas, mapJsonSchema \in UnwrapMaps,
          io \in {"input", "output"} :
          /\ callee' = "unwrapSchema"
          /\ arguments' = [schema |-> schema, mapJsonSchema |-> mapJsonSchema,
                           io |-> io]
          /\ returned' = unwrapSchema(schema, mapJsonSchema, io)
          /\ warned' = WarnedAfterUnwrap(warned, schema, mapJsonSchema, io)
          /\ history' =
                Append(history,
                       [schema |-> schema, mapJsonSchema |-> mapJsonSchema,
                        io |-> io,
                        returned |-> unwrapSchema(schema, mapJsonSchema, io),
                        diagnosed |-> Diagnosed(warned, schema,
                                                mapJsonSchema, io),
                        warned |-> WarnedAfterUnwrap(warned, schema,
                                                     mapJsonSchema, io)])
    /\ UNCHANGED <<mergeVars, vendors, genVars, minerVars, passVars>>

NextUnwrap == UnwrapSchema

SpecUnwrap == InitUnwrap /\ [][NextUnwrap]_vars

----------------------------------------------------------------------------
(* The declaration miner (extractRootObjects, declarationToJSONSchema).    *)
(* A text is a sequence of atoms: a symbol [char |-> c] is one character   *)
(* ('{', '}', ':', ';', ',', '&' or ' ' for any whitespace) and a word     *)
(* [word |-> w, quoted |-> q] is a run of characters free of symbols,      *)
(* wrapped in double quotes when q.  Positions count atoms from 1, and 0   *)
(* stands for the index -1.                                                *)

Sym(c) == [char |-> c]

Word(w) == [word |-> w, quoted |-> FALSE]

Quoted(w) == [word |-> w, quoted |-> TRUE]

IsWord(atom) == Has(atom, "word")

\* /\s/
IsSpace(atom) == atom = Sym(" ")

\* /[\s{};,\n]/
IsDelimiter(atom) ==
    atom \in {Sym(" "), Sym("{"), Sym("}"), Sym(";"), Sym(",")}

Least(positions) == CHOOSE n \in positions : \A m \in positions : n <= m

Greatest(positions) == CHOOSE n \in positions : \A m \in positions : m <= n

\* declaration.replace(propertyKey, '"$1":'): a bare word that stands right
\* before a colon is wrapped in quotes
QuoteKeys(text) ==
    [n \in 1..Len(text) |->
        IF /\ IsWord(text[n]) /\ ~text[n].quoted
           /\ n < Len(text) /\ text[n + 1] = Sym(":")
        THEN Quoted(text[n].word)
        ELSE text[n]]

\* text.indexOf(atom, from)
indexOf(text, atom, from) ==
    IF \E n \in from..Len(text) : text[n] = atom
    THEN Least({n \in from..Len(text) : text[n] = atom})
    ELSE 0

\* keyEnd: back from the colon over whitespace
KeyEnd(text, colonIdx) ==
    Greatest({0} \cup {n \in 1..(colonIdx - 1) : ~IsSpace(text[n])})

\* keyStart: back from keyEnd to the nearest delimiter
KeyStart(text, keyEnd) ==
    Greatest({0} \cup {n \in 1..keyEnd : IsDelimiter(text[n])})

\* depth after the atom at n, counted from braceIdx
Depth(text, braceIdx, n) ==
    Cardinality({m \in braceIdx..n : text[m] = Sym("{")})
    - Cardinality({m \in braceIdx..n : text[m] = Sym("}")})

\* a brace scan that stops at the brace it starts from
BraceOnly(text, braceIdx) == braceIdx

\* end: just past the brace that closes the one at braceIdx, or past the
\* last atom when none does
End(text, braceIdx) ==
    IF \E n \in braceIdx..Len(text) :
          text[n] = Sym("}") /\ Depth(text, braceIdx, n) = 0
    THEN 1 + Least({n \in braceIdx..Len(text) :
                       text[n] = Sym("}") /\ Depth(text, braceIdx, n) = 0})
    ELSE Len(text) + 1

\* the loop of extractRootObjects goes on from i: there is a colon and an
\* opening brace after it
Extracts(text, from) ==
    /\ from <= Len(text)
    /\ indexOf(text, Sym(":"), from) # 0
    /\ indexOf(text, Sym("{"), indexOf(text, Sym(":"), from)) # 0

\* keyStart + 1 and end of the iteration that starts at i
FragmentStart(text, from) ==
    1 + KeyStart(text, KeyEnd(text, indexOf(text, Sym(":"), from)))

FragmentEnd(text, from) ==
    End(text, indexOf(text, Sym("{"), indexOf(text, Sym(":"), from)))

\* `{${code.slice(keyStart + 1, end)};}`, kept with its span of code
Fragment(text, start, end) ==
    [start |-> start,
     end |-> end,
     text |-> <<Sym("{")>> \o SubSeq(text, start, end - 1)
              \o <<Sym(";"), Sym("}")>>]

\* route.replaceAll(/readonly/g, ''): the word readonly disappears, and
\* leaves its quotes behind when it was quoted
WithoutReadonly(text) ==
    LET kept(atom) == ~(IsWord(atom) /\ atom.word = "readonly"
                         /\ ~atom.quoted)
    IN [n \in 1..Len(SelectSeq(text, kept)) |->
           IF /\ IsWord(SelectSeq(text, kept)[n])
              /\ SelectSeq(text, kept)[n].word = "readonly"
           THEN Quoted("")
           ELSE SelectSeq(text, kept)[n]]

\* t.Object(properties) with every key required
ObjectOf(props) == TObject(props, [n \in 1..Len(props) |-> props[n].k])

TNever == [Kind |-> "Never"]

\* TypeBox() of @sinclair/typemap on the type syntax the miner meets: an
\* object literal of members key: type, separated by ';', ',' or
\* whitespace, and the type string.  The text is read atom by atom with a
\* stack of the literals that are open, each [props, key, expect] with
\* expect one of key, colon, value; status is type (a type is awaited),
\* open, done or failed.
Reading == [status |-> "type", stack |-> <<>>, schema |-> TNever]

Failed == [status |-> "failed", stack |-> <<>>, schema |-> TNever]

Opened(props) == [props |-> props, key |-> "", expect |-> "key"]

\* the literal on top of the stack, replaced
Top(stack, frame) == [stack EXCEPT ![Len(stack)] = frame]

\* a type was read in full: it is the text's type, or the value of the
\* member awaited by the literal below
Completed(stack, schema) ==
    IF stack = <<>>
    THEN [status |-> "done", stack |-> <<>>, schema |-> schema]
    ELSE [status |-> "open",
          stack |-> Top(stack,
                        Opened(Append(stack[Len(stack)].props,
                                      P(stack[Len(stack)].key, schema)))),
          schema |-> TNever]

\* a type starts at atom
ReadType(stack, atom) ==
    IF atom = Sym("{")
    THEN [status |-> "open", stack |-> Append(stack, Opened(<<>>)),
          schema |-> TNever]
    ELSE IF atom = Word("string") THEN Completed(stack, TString)
    ELSE Failed

\* atom is read inside the literal frame on top of stack
ReadMember(stack, frame, atom) ==
    IF frame.expect = "value" THEN ReadType(stack, atom)
    ELSE IF frame.expect = "colon"
    THEN IF atom = Sym(":")
         THEN [status |-> "open",
               stack |-> Top(stack, [frame EXCEPT !.expect = "value"]),
               schema |-> TNever]
         ELSE Failed
    ELSE IF atom \in {Sym(";"), Sym(",")}
    THEN [status |-> "open", stack |-> stack, schema |-> TNever]
    ELSE IF atom = Sym("}")
    THEN Completed(SubSeq(stack, 1, Len(stack) - 1), ObjectOf(frame.props))
    ELSE IF IsWord(atom)
    THEN [status |-> "open",
          stack |-> Top(stack, [frame EXCEPT !.key = atom.word,
                                             !.expect = "colon"]),
          schema |-> TNever]
    ELSE Failed

Read(state, atom) ==
    IF IsSpace(atom) \/ state.status = "failed" THEN state
    ELSE IF state.status = "done" THEN Failed
    ELSE IF state.status = "type" THEN ReadType(state.stack, atom)
    ELSE ReadMember(state.stack, state.stack[Len(state.stack)], atom)

\* the schema of a text that is a type, and Never for any other text
TypeBox(text) ==
    LET each[n \in 0..Len(text)] ==
            IF n = 0 THEN Reading ELSE Read(each[n - 1], text[n])
    IN each[Len(text)].schema

\* the while (true) loop of declarationToJSONSchema: [paths, schema] when
\* it breaks
RECURSIVE FoldChain(_, _)
FoldChain(schema, chain) ==
    IF Len(schema.properties) # 1 THEN [paths |-> chain, schema |-> schema]
    ELSE IF ~Has(schema.properties[1].v, "properties")
    THEN [paths |-> Append(chain, schema.properties[1].k),
          schema |-> schema.properties[1].v]
    ELSE FoldChain(schema.properties[1].v,
                   Append(chain, schema.properties[1].k))

\* paths.join('/')
Join(names) ==
    LET each[n \in 0..Len(names)] ==
            IF n = 0 THEN ""
            ELSE IF n = 1 THEN names[1]
            ELSE each[n - 1] \o "/" \o names[n]
    IN each[Len(names)]

\* responseSchema: the properties of the response, keyed by status
ByStatus(props) ==
    [status \in {props[n].k : n \in 1..Len(props)} |->
        props[Greatest({n \in 1..Len(props) : props[n].k = status})].v]

\* schema.properties with an object-typed response replaced
Slots(schema) ==
    IF ~Has(schema, "properties") THEN Undefined
    ELSE [n \in 1..Len(schema.properties) |->
             IF /\ schema.properties[n].k = "response"
                /\ TypeOf(schema.properties[n].v) = "object"
             THEN P("response", ByStatus(schema.properties[n].v.properties))
             ELSE schema.properties[n]]

\* what the folding of one fragment gives
Folded(fragment) == FoldChain(TypeBox(WithoutReadonly(fragment.text)), <<>>)

\* the fragment gives a route: its schema is an object and the method
\* popped is not undefined or ''
GivesRoute(fragment) ==
    /\ TypeOf(TypeBox(WithoutReadonly(fragment.text))) = "object"
    /\ Folded(fragment).paths # <<>>
    /\ Folded(fragment).paths[Len(Folded(fragment).paths)] # ""

\* routes[path][method.toLowerCase()] = schema
PutRoute(rs, path, method, slots) ==
    With(rs, path,
         With(IF Has(rs, path) THEN rs[path] ELSE EmptyObject, method, slots))

RouteOf(rs, folded) ==
    PutRoute(rs,
             "/" \o Join(SubSeq(folded.paths, 1, Len(folded.paths) - 1)),
             toLowerCase(folded.paths[Len(folded.paths)]),
             Slots(folded.schema))

\* an object literal type, by its members
Literal(members) == [members |-> members]

\* a type as text: a type name, or an object literal from its members,
\* whitespace standing between two members and nowhere else
RECURSIVE Render(_)
Render(type) ==
    IF IsWord(type) THEN <<type>>
    ELSE LET each[n \in 0..Len(type.members)] ==
                 IF n = 0 THEN <<Sym("{")>>
                 ELSE each[n - 1]
                      \o (IF n = 1 THEN <<>> ELSE <<Sym(" ")>>)
                      \o <<Word(type.members[n].k), Sym(":")>>
                      \o Render(type.members[n].v)
         IN each[Len(type.members)] \o <<Sym("}")>>

\* seg1: { ... segN: { method: descriptor } }, as the one member it is
RECURSIVE Chain(_, _, _)
Chain(segments, method, descriptor) ==
    IF segments = <<>> THEN P(method, descriptor)
    ELSE P(Head(segments),
           Literal(<<Chain(Tail(segments), method, descriptor)>>))

NameSchema == Literal(<<P("name", Word("string"))>>)

NoMembers == Literal(<<>>)

FullDescriptor ==
    Literal(<<P("params", NoMembers), P("query", NoMembers),
              P("headers", NoMembers), P("body", NoMembers),
              P("response", Literal(<<P("200", NameSchema)>>))>>)

TwoSlots ==
    Literal(<<P("body", NoMembers),
              P("response", Literal(<<P("200", NameSchema),
                                      P("404", NoMembers)>>))>>)

ResponseOnly == Literal(<<P("response", Literal(<<P("200", NameSchema)>>))>>)

Descriptors == {FullDescriptor, TwoSlots, ResponseOnly, NoMembers}

\* the chains of the drawn declarations, as [segments, method, descriptor]
Chains ==
    {[segments |-> s, method |-> m, descriptor |-> d] :
        s \in {<<"hello", "world">>, <<"hi">>, <<>>},
        m \in {"get", "POST"},
        d \in Descriptors}

MemberOf(chain) == Chain(chain.segments, chain.method, chain.descriptor)

\* lists of chains with pairwise different first keys
ChainLists ==
    {<<c>> : c \in Chains}
    \cup {<<c, d>> : c \in {x \in Chains : x.segments = <<"hello", "world">>},
                     d \in {x \in Chains : x.segments = <<"hi">>
                                           /\ x.descriptor # FullDescriptor}}

\* the chains in one object literal
InOneLiteral(chains) ==
    Render(Literal([n \in 1..Len(chains) |-> MemberOf(chains[n])]))

\* one literal per chain, joined by '&'
Intersected(chains) ==
    LET each[n \in 0..Len(chains)] ==
            IF n = 0 THEN <<>>
            ELSE IF n = 1 THEN Render(Literal(<<MemberOf(chains[1])>>))
            ELSE each[n - 1] \o <<Sym(" "), Sym("&"), Sym(" ")>>
                 \o Render(Literal(<<MemberOf(chains[n])>>))
    IN each[Len(chains)]

\* a key whose colon is followed by no block
Version == P("version", Word("string"))

\* a literal that holds a key without block before or after a chain
VersionBefore(chain) == Render(Literal(<<Version, MemberOf(chain)>>))

VersionAfter(chain) == Render(Literal(<<MemberOf(chain), Version>>))

\* a literal whose second chain is cut before its last two braces
Unclosed(chain, cut) ==
    SubSeq(Render(Literal(<<MemberOf(chain), MemberOf(cut)>>)), 1,
           Len(Render(Literal(<<MemberOf(chain), MemberOf(cut)>>))) - 2)

\* a literal that holds a chain and two keys with an empty block and no
\* method below them
Methodless(chain) ==
    Render(Literal(<<MemberOf(chain), P("hi", NoMembers),
                     P("readonly", NoMembers)>>))

LongChains == {c \in Chains : c.segments = <<"hello", "world">>}

CutChains == {c \in Chains : c.segments = <<"hi">> /\ c.descriptor = TwoSlots}

\* declarations with a malformed part before or after a well-formed chain
MalformedDeclarations ==
    {VersionBefore(c) : c \in Chains}
    \cup {VersionAfter(c) : c \in Chains}
    \cup {Unclosed(c, d) : c \in LongChains, d \in CutChains}
    \cup {Methodless(c) : c \in LongChains}

MaxText == 4

\* every text of at most MaxText atoms over a few atoms
ShortTexts ==
    UNION {[1..n -> {Sym("{"), Sym("}"), Sym(":"), Sym(" "), Word("a")}] :
              n \in 0..MaxText}

Declarations ==
    {InOneLiteral(cs) : cs \in ChainLists}
    \cup {Intersected(cs) : cs \in ChainLists}
    \cup MalformedDeclarations
    \cup ShortTexts

InitMiner ==
    /\ code \in {QuoteKeys(declaration) : declaration \in Declarations}
    /\ cursor = 1
    /\ results = <<>>
    /\ taken = 0
    /\ mined = EmptyObject
    /\ stage = "extract"
    /\ FirstPass
    /\ callee = "none"
    /\ arguments = Undefined
    /\ returned = Undefined
    /\ history = <<>>
    /\ vendors = EmptyObject
    /\ warned = {}
    /\ existing = Undefined
    /\ incoming = Undefined
    /\ localHook = NoHooks
    /\ merged = Undefined
    /\ op = "init"
    /\ registry = <<>>
    /\ definitions = EmptyObject
    /\ references = <<>>
    /\ exclude = EmptyObject
    /\ pc = "idle"
    /\ routes = <<>>
    /\ index = 1
    /\ route = Undefined
    /\ operation = Undefined
    /\ paths = EmptyObject
    /\ components = EmptyObject

MinerFrame ==
    UNCHANGED <<mergeVars, vendors, warned, genVars, callVars, passVars>>

\* one iteration of the loop of extractRootObjects that pushes a fragment
ExtractRootObject ==
    /\ stage = "extract"
    /\ Extracts(code, cursor)
    /\ results' = Append(results,
                         Fragment(code, FragmentStart(code, cursor),
                                  FragmentEnd(code, cursor)))
    /\ cursor' = FragmentEnd(code, cursor)
    /\ UNCHANGED <<code, taken, mined, stage>>
    /\ MinerFrame

\* the loop of extractRootObjects ends: the text is over, or holds no
\* further colon, or no opening brace after it
ExtractEnd ==
    /\ stage = "extract"
    /\ ~Extracts(code, cursor)
    /\ stage' = "fold"
    /\ UNCHANGED <<code, cursor, results, taken, mined>>
    /\ MinerFrame

\* an iteration of declarationToJSONSchema that leaves at a continue
SkipFragment ==
    /\ stage = "fold"
    /\ taken < Len(results)
    /\ ~GivesRoute(results[taken + 1])
    /\ taken' = taken + 1
    /\ UNCHANGED <<code, cursor, results, mined, stage>>
    /\ MinerFrame

\* an iteration of declarationToJSONSchema that writes a route
MineRoute ==
    /\ stage = "fold"
    /\ taken < Len(results)
    /\ GivesRoute(results[taken + 1])
    /\ mined' = RouteOf(mined, Folded(results[taken + 1]))
    /\ taken' = taken + 1
    /\ UNCHANGED <<code, cursor, results, stage>>
    /\ MinerFrame

\* declarationToJSONSchema returns routes
ReturnRoutes ==
    /\ stage = "fold"
    /\ taken = Len(results)
    /\ stage' = "done"
    /\ UNCHANGED <<code, cursor, results, taken, mined>>
    /\ MinerFrame

NextMiner ==
    \/ ExtractRootObject
    \/ ExtractEnd
    \/ SkipFragment
    \/ MineRoute
    \/ ReturnRoutes

SpecMiner == InitMiner /\ [][NextMiner]_vars

\* extractRootObjects is straight-line code: an iteration of its loop that
\* can run does run, and so does the exit of the loop
SpecMinerLive ==
    /\ SpecMiner
    /\ WF_vars(ExtractRootObject)
    /\ WF_vars(ExtractEnd)

----------------------------------------------------------------------------
(* Properties of the merge engine *)

IsObjectSchema(x) == TypeOf(x) = "object" /\ Has(x, "properties")

RequiredOf(x) == IF Has(x, "required") THEN Range(x.required) ELSE {}

Forbids(x) ==
    Has(x, "additionalProperties") /\ x.additionalProperties = FALSE

Allows(x) ==
    Has(x, "additionalProperties") /\ x.additionalProperties = TRUE

NoRepeat(s) == \A i, j \in 1..Len(s) : s[i] = s[j] => i = j

\* the declarations of the body slot from the outermost guard to the route
BodyDeclarations ==
    [n \in 1..Len(localHook.standaloneValidator) |->
        localHook.standaloneValidator[n].body] \o <<localHook.body>>

\* the innermost declaration of property key in the object schemas decls
Innermost(decls, key) ==
    LET declaring == {n \in 1..Len(decls) : key \in Keys(decls[n].properties)}
        last == CHOOSE n \in declaring : \A m \in declaring : m <= n
    IN ValueOf(decls[last].properties, key)

\* C2: after a guard chain is flattened, each property of an object slot
\* carries the schema of its innermost declaration: the route's own
\* declaration wins over every guard, an inner guard over an outer one.
C2_InnerDeclarationWins ==
    (/\ op = "mergeStandaloneValidators"
     /\ Len(localHook.standaloneValidator) > 0
     /\ \A n \in 1..Len(BodyDeclarations) :
           IsObjectSchema(BodyDeclarations[n]))
    => /\ IsObjectSchema(merged.body)
       /\ \A key \in Keys(merged.body.properties) :
             ValueOf(merged.body.properties, key)
             = Innermost(BodyDeclarations, key)

\* C3: mergeSchemaProperty of two object schemas is an object schema with
\* the property keys of both, the union of both required lists without a
\* repeated name, additionalProperties false when either side sets false
\* and true exactly when some side sets true and none sets false.
C3_ObjectMerge ==
    (/\ op = "mergeSchemaProperty"
     /\ IsObjectSchema(existing)
     /\ IsObjectSchema(incoming))
    => /\ IsObjectSchema(merged)
       /\ Keys(merged.properties)
          = Keys(existing.properties) \cup Keys(incoming.properties)
       /\ NoRepeat(KeySeq(merged.properties))
       /\ Has(merged, "required")
       /\ Range(merged.required) = RequiredOf(existing) \cup RequiredOf(incoming)
       /\ NoRepeat(merged.required)
       /\ (Forbids(existing) \/ Forbids(incoming)) => Forbids(merged)
       /\ Allows(merged)
          <=> /\ Allows(existing) \/ Allows(incoming)
              /\ ~Forbids(existing) /\ ~Forbids(incoming)

\* both sides require id, one side forbids additional properties and the
\* other allows them
C3_Witness ==
    /\ op = "mergeSchemaProperty"
    /\ existing = ObjIdString
    /\ incoming = ObjNameOptional
    /\ Forbids(merged)
    /\ merged.required = <<"id", "name">>

\* a TypeBox schema or a name, as mergeSchemaProperty composes it
Composed(x) == IF IsString(x) THEN TRef(<<x.string>>) ELSE x

IsVendor(x) == ~Has(x, "Kind") /\ Has(x, "std")

\* C4 as stated: whenever one of two schemas is not an object schema (a
\* TypeBox schema, a name, or a vendor schema that converts to nothing), the
\* merge is an intersection of two members; no input is dropped.
C4_NothingDropped ==
    (/\ op = "mergeSchemaProperty"
     /\ ~Falsy(existing) /\ ~Falsy(incoming)
     /\ ~IsVendor(existing)
     /\ ~IsObjectSchema(existing) \/ ~IsObjectSchema(incoming)
     /\ ~IsVendor(incoming) \/ Falsy(unwrapSchema(incoming, vendors, "input")))
    => /\ Has(merged, "allOf")
       /\ Len(merged.allOf) = 2

\* C4: for TypeBox schemas and names, of which at least one is not an object
\* schema, the merge is an intersection whose members are exactly the two
\* schemas (a name as its reference node); an incoming vendor schema that
\* has no conversion is dropped and the existing side returned as it is.
C4_IntersectionOfBoth ==
    /\ (/\ op = "mergeSchemaProperty"
        /\ ~Falsy(existing) /\ ~Falsy(incoming)
        /\ ~IsVendor(existing) /\ ~IsVendor(incoming)
        /\ ~IsObjectSchema(existing) \/ ~IsObjectSchema(incoming))
       => /\ Has(merged, "Kind") /\ merged.Kind = "Intersect"
          /\ Len(merged.allOf) = 2
          /\ \/ merged.allOf = <<Composed(existing), Composed(incoming)>>
             \/ merged.allOf = <<Composed(incoming), Composed(existing)>>
    /\ (/\ op = "mergeSchemaProperty"
        /\ ~Falsy(existing)
        /\ incoming = ZodSchema
        /\ vendors = EmptyObject)
       => merged = existing

\* an object schema merged with a name
C4_Witness ==
    /\ op = "mergeSchemaProperty"
    /\ existing = ObjIdNumber
    /\ incoming = Str("User")
    /\ merged.allOf = <<ObjIdNumber, TRef(<<"User">>)>>

\* the statuses of a response slot, a single schema counting as 200
StatusesOf(x) ==
    IF IsString(x) \/ Has(x, "Kind") \/ Has(x, "std") THEN {"200"}
    ELSE DOMAIN x

\* the schema a response slot holds for a status
AtStatus(x, status) ==
    IF IsString(x) \/ Has(x, "Kind") \/ Has(x, "std") THEN x
    ELSE x[status]

\* C5: mergeResponseSchema of two present slots is a status map over the
\* statuses of both sides, a single schema counting as status 200; a status
\* of one side only keeps that side's schema.
C5_StatusUnion ==
    (/\ op = "mergeResponseSchema"
     /\ ~Falsy(existing) /\ ~Falsy(incoming))
    => /\ ~Has(merged, "Kind")
       /\ DOMAIN merged = StatusesOf(existing) \cup StatusesOf(incoming)
       /\ \A status \in StatusesOf(existing) \ StatusesOf(incoming) :
             merged[status] \in {AtStatus(existing, status),
                                 Composed(AtStatus(existing, status))}
       /\ \A status \in StatusesOf(incoming) \ StatusesOf(existing) :
             merged[status] \in {AtStatus(incoming, status),
                                 Composed(AtStatus(incoming, status))}

----------------------------------------------------------------------------
(* Properties of the documents toOpenAPISchema builds *)

\* the last iteration built an operation
Emitted == ~Has(operation, "undefined")

\* the statuses a response entry can stand under in the applications above
AllStatuses == {"200", "204", "401", "404", "500"}

\* a response slot that is one schema, not a map from status to schema
IsSingle(x) == IsString(x) \/ Has(x, "Kind") \/ Has(x, "std")

\* the schema a response slot holds for a status, a single schema counting
\* as status 200
SchemaAt(x, status) ==
    IF Falsy(x) THEN Undefined
    ELSE IF IsSingle(x) THEN (IF status = "200" THEN x ELSE Undefined)
    ELSE IF Has(x, status) THEN x[status]
    ELSE Undefined

\* what a reference source holds for a route, looked up by the route's path
\* and by that path with the trailing slash toggled
Supply(reference, r) ==
    LET method == toLowerCase(r.method)
        loose == [r.path EXCEPT !.slash = ~@]
        holds(path) == /\ path \in DOMAIN reference.table
                       /\ method \in DOMAIN reference.table[path]
    IN IF holds(r.path) THEN reference.table[r.path][method]
       ELSE IF holds(loose) THEN reference.table[loose][method]
       ELSE NoSchema

\* the schema the first source with a valid one supplies, if any; at(refer)
\* picks the slot or status out of what a source holds
FirstSupplied(r, slot, status) ==
    LET at(refer) == IF slot = "response" THEN SchemaAt(refer.response, status)
                     ELSE refer[slot]
        valid == {n \in 1..Len(references) :
                     /\ ~Falsy(references[n])
                     /\ isValidSchema(at(Supply(references[n], r)))}
        first == CHOOSE n \in valid : \A m \in valid : n <= m
    IN IF valid = {} THEN Undefined ELSE at(Supply(references[first], r))

\* C1: when the references are applied to a route, each of body, query,
\* params, headers and each response status holds the route's own schema if
\* the route has one, else the schema of the first source that supplies a
\* valid one for the route's path and method.
C1_RouteSchemaWins ==
    [][(/\ pc = "loop"
        /\ index' = index + 1
        /\ ~Hidden(routes[index])
        /\ ~Excluded(routes[index], exclude))
       => /\ \A slot \in {"body", "query", "params", "headers"} :
                route'.hooks[slot]
                = IF ~Falsy(routes[index].hooks[slot])
                  THEN routes[index].hooks[slot]
                  ELSE FirstSupplied(routes[index], slot, "")
          /\ \A status \in AllStatuses :
                SchemaAt(route'.hooks.response, status)
                = IF ~Falsy(SchemaAt(routes[index].hooks.response, status))
                  THEN SchemaAt(routes[index].hooks.response, status)
                  ELSE FirstSupplied(routes[index], "response", status)]_vars

\* the methods and path keys the last iteration wrote
WrittenMethods ==
    IF toLowerCase(route.method) = "all" THEN Range(Verbs)
    ELSE {toLowerCase(route.method)}

WrittenKeys == {PathKey(path) : path \in Range(getPossiblePath(route.path))}

\* C6: a response entry built from a schema of type void, null or undefined
\* has a description and no content key.
C6_NoContentForEmptyResponse ==
    (Emitted /\ Has(operation, "responses"))
    => \A status \in DOMAIN operation.responses :
          LET source == SchemaAt(route.hooks.response, status)
          IN (~IsString(source) /\ TypeOf(source) \in {"void", "null", "undefined"})
             => /\ Has(operation.responses[status], "description")
                /\ ~Has(operation.responses[status], "content")

\* the type of an emitted schema once a reference to a definition is resolved
ResolvedType(schema) ==
    IF Has(schema, "$ref")
    THEN LET name == schema["$ref"][Len(schema["$ref"])]
         IN IF name \in DOMAIN definitions THEN TypeOf(definitions[name])
            ELSE ""
    ELSE TypeOf(schema)

\* the content type a parser name stands for, "" for any other name
FormatNamed(name) ==
    CASE name \in {"text", "text/plain"} -> "text/plain"
      [] name \in {"json", "application/json"} -> "application/json"
      [] name \in {"urlencoded", "application/x-www-form-urlencoded"}
           -> "application/x-www-form-urlencoded"
      [] name \in {"formdata", "multipart/form-data"} -> "multipart/form-data"
      [] OTHER -> ""

DeclaredFormats(parsers) ==
    {FormatNamed(parsers[n].fn.string) :
        n \in {m \in 1..Len(parsers) : Has(parsers[m].fn, "string")}} \ {""}

\* C7: an emitted request body is required; without parsers its content is
\* text/plain alone for a body of a primitive type (a reference resolved) and
\* json, urlencoded and multipart otherwise; with parsers its content is the
\* recognized formats named among them.
C7_RequestBodyContent ==
    Emitted
    => \A key \in WrittenKeys : \A method \in WrittenMethods :
          Has(paths[key][method], "requestBody")
          => LET body == paths[key][method].requestBody
             IN /\ body.required = TRUE
                /\ IF Has(route.hooks, "parse")
                   THEN DOMAIN body.content = DeclaredFormats(route.hooks.parse)
                   ELSE \A type \in {ResolvedType(body.content[c].schema) :
                                        c \in DOMAIN body.content} :
                           DOMAIN body.content
                           = IF type \in {"string", "number", "integer",
                                          "boolean"}
                             THEN {"text/plain"}
                             ELSE {"application/json",
                                   "application/x-www-form-urlencoded",
                                   "multipart/form-data"}
                /\ Has(route.hooks, "parse") \/ DOMAIN body.content # {}

\* a function parser, two names of one format and an unknown name
C7_Witness ==
    /\ Emitted
    /\ Has(route.hooks, "parse")
    /\ Len(route.hooks.parse) = 5
    /\ Has(operation, "requestBody")
    /\ DOMAIN operation.requestBody.content
       = {"text/plain", "multipart/form-data"}

\* C8: no operation under get or head has a request body.
C8_NoBodyUnderGetOrHead ==
    \A key \in DOMAIN paths :
        \A method \in DOMAIN paths[key] \cap {"get", "head"} :
            ~Has(paths[key][method], "requestBody")

\* the parameters of an operation with one location, in order
ParametersIn(o, location) ==
    LET there(parameter) == parameter["in"] = location
    IN IF Has(o, "parameters") THEN SelectSeq(o.parameters, there) ELSE <<>>

\* a slot given as a schema or as the name of a definition
SlotSchema(slot) ==
    IF IsString(slot) /\ slot.string \in DOMAIN definitions
    THEN definitions[slot.string]
    ELSE slot

LocationOf == [params |-> "path", query |-> "query", headers |-> "header",
               cookie |-> "cookie"]

\* C9: a params, query, headers or cookie slot that is an object schema
\* gives one parameter per top-level property, in its location; a path
\* parameter is required, another one exactly when the slot requires it.
C9_ParameterPerProperty ==
    Emitted
    => \A slot \in DOMAIN LocationOf :
          LET schema == SlotSchema(route.hooks[slot])
              emitted == ParametersIn(operation, LocationOf[slot])
          IN IsObjectSchema(schema)
             => /\ Len(emitted) = Len(schema.properties)
                /\ \A n \in 1..Len(emitted) :
                      /\ emitted[n].name = schema.properties[n].k
                      /\ emitted[n].required
                         = (\/ slot = "params"
                            \/ emitted[n].name \in RequiredOf(schema))

\* an optional query property beside required header properties
C9_Witness ==
    /\ Emitted
    /\ route.hooks.query = ObjNameOptional
    /\ route.hooks.headers = ObjIdString
    /\ route.hooks.params = Str("User")
    /\ \E n \in 1..Len(operation.parameters) :
          /\ operation.parameters[n]["in"] = "query"
          /\ ~operation.parameters[n].required

\* the names of the ':name' tokens of a path, in order
TokenNames(path) ==
    LET isToken(seg) == "param" \in DOMAIN seg
        tokens == SelectSeq(path.segs, isToken)
    IN [n \in 1..Len(tokens) |-> tokens[n].param]

\* C10: without a params schema in effect, every operation written for the
\* route carries one required string path parameter per ':name' token of
\* the raw path, in order, '?' removed.
C10_SynthesizedPathParameters ==
    (Emitted /\ Falsy(route.hooks.params))
    => \A key \in WrittenKeys : \A method \in WrittenMethods :
          /\ key \in DOMAIN paths
          /\ method \in DOMAIN paths[key]
          /\ ParametersIn(paths[key][method], "path")
             = [n \in 1..Len(TokenNames(route.path)) |->
                   [name |-> TokenNames(route.path)[n],
                    in |-> "path",
                    required |-> TRUE,
                    schema |-> [type |-> "string"]]]

\* '/user/:user?/id/:id?' yields four path keys, each with user and id
C10_Witness ==
    /\ pc = "done"
    /\ Len(registry) = 1
    /\ registry[1].path = PathOptional
    /\ Falsy(registry[1].hooks.params)
    /\ Cardinality(DOMAIN paths) = 4
    /\ \A key \in DOMAIN paths :
          /\ Len(paths[key].get.parameters) >= 2
          /\ paths[key].get.parameters[1].name = "user"
          /\ paths[key].get.parameters[2].name = "id"

----------------------------------------------------------------------------
(* Properties of the path helpers *)

\* the positions of the optional segments of a pattern, in source order
OptionalPositions(pattern) ==
    {n \in 1..Len(pattern.segs) :
        /\ "optional" \in DOMAIN pattern.segs[n]
        /\ pattern.segs[n].optional}

\* a pattern with the segment at one position removed
RemoveAt(pattern, n) ==
    [pattern EXCEPT !.segs = SubSeq(@, 1, n - 1) \o SubSeq(@, n + 1, Len(@))]

\* a pattern with every '?' dropped and every segment kept
AllKept(pattern) ==
    [pattern EXCEPT !.segs =
        [n \in 1..Len(@) |->
            IF n \in OptionalPositions(pattern)
            THEN [param |-> @[n].param, optional |-> FALSE] ELSE @[n]]]

\* the expansions of a pattern with one optional segment removed at a time,
\* the segments taken in source order
RemovedInTurn(pattern) ==
    LET isOptional(n) == n \in OptionalPositions(pattern)
        positions == SelectSeq([n \in 1..Len(pattern.segs) |-> n],
                               isOptional)
        each[n \in 0..Len(positions)] ==
            IF n = 0 THEN <<>>
            ELSE each[n - 1]
                 \o getPossiblePath(RemoveAt(pattern, positions[n]))
    IN each[Len(positions)]

\* C11: getPossiblePath returns the pattern alone when it has no optional
\* segment; otherwise the pattern without its '?' marks, followed, for each
\* optional segment in source order, by the expansion of the pattern with
\* only that segment removed.
C11_Expansion ==
    callee = "getPossiblePath"
    => IF OptionalPositions(arguments.path) = {}
       THEN returned = <<arguments.path>>
       ELSE returned
            = <<AllKept(arguments.path)>> \o RemovedInTurn(arguments.path)

\* the number of entries getPossiblePath makes for k optional segments
EntryCount ==
    LET count[k \in 0..(MaxSegments + 1)] ==
            IF k = 0 THEN 1 ELSE 1 + k * count[k - 1]
    IN count

\* C12 as stated: with k optional segments getPossiblePath returns at
\* least k+1 and at most 2^k entries.
C12_EntriesWithinBounds ==
    callee = "getPossiblePath"
    => LET k == Cardinality(OptionalPositions(arguments.path))
       IN k + 1 <= Len(returned) /\ Len(returned) <= 2 ^ k

\* C12: with k optional segments getPossiblePath returns 1 + k * N(k-1)
\* entries, N(0) = 1 (1, 2, 5, 16 for k = 0..3), of which at least k+1 and
\* at most 2^k are different.
C12_EntryCount ==
    callee = "getPossiblePath"
    => LET k == Cardinality(OptionalPositions(arguments.path))
           different == Cardinality(Range(returned))
       IN /\ Len(returned) = EntryCount[k]
          /\ k + 1 <= different
          /\ different <= 2 ^ k

\* '/user/:user?/:id?': five entries, four of them different
C12_Witness ==
    /\ callee = "getPossiblePath"
    /\ arguments.path.segs
       = <<Static("user"), Optional("user"), Optional("id")>>
    /\ Len(returned) = 5
    /\ Cardinality(Range(returned)) = 4

\* the words of the drawn patterns with their first letter in upper case,
\* and the drawn methods in lower case
Capitalized == [user |-> "User", by |-> "By", id |-> "Id"]

LowerCased == [GET |-> "get", POST |-> "post"]

\* what a '/'-separated segment adds to the identifier
Rendered(seg) ==
    IF "param" \in DOMAIN seg
    THEN "By" \o Capitalized[seg.param]
         \o (IF seg.optional THEN "Optional" ELSE "")
    ELSE Capitalized[seg.static]

\* C13: toOperationId is the lower-cased method followed by 'Index' for
\* the paths '' and '/', and otherwise by 'By' + the capitalized name for
\* each parameter segment and the capitalized segment for every other one,
\* in order, a '?' reading 'Optional'.
C13_OperationId ==
    callee = "toOperationId"
    => LET segs == arguments.path.segs
           joined[n \in 0..Len(segs)] ==
               IF n = 0 THEN "" ELSE joined[n - 1] \o Rendered(segs[n])
       IN returned
          = LowerCased[arguments.method]
            \o (IF Len(segs) = 0 THEN "Index" ELSE joined[Len(segs)])

\* POST '/user/:user?/id/'
C13_Witness ==
    /\ callee = "toOperationId"
    /\ arguments.method = "POST"
    /\ arguments.path
       = [segs |-> <<Static("user"), Optional("user"), Static("id")>>,
          slash |-> TRUE]
    /\ returned = "postUserByUserOptionalId"

\* a path as a route stands under it in the document: no optional segment,
\* no closing '/' except for '/' itself
Concrete(pattern) ==
    /\ OptionalPositions(pattern) = {}
    /\ pattern.slash = (pattern.segs = <<>>)

\* C15: toOperationId gives different identifiers to different pairs of a
\* method and a concrete path.
C15_UniqueOperationId ==
    (callee = "toOperationId" /\ Concrete(arguments.path))
    => \A m \in Methods : \A pattern \in PathPatterns :
          (/\ Concrete(pattern)
           /\ <<m, pattern>> # <<arguments.method, arguments.path>>)
          => toOperationId(m, pattern) # returned

----------------------------------------------------------------------------
(* Properties of the operations toOpenAPISchema writes and leaves out *)

\* C14: every operation written for a route whose detail holds an
\* operationId, under each expanded path and each verb, has that operationId.
C14_ExplicitOperationId ==
    (Emitted /\ Has(route.hooks.detail, "operationId"))
    => \A key \in WrittenKeys : \A method \in WrittenMethods :
          /\ key \in DOMAIN paths
          /\ method \in DOMAIN paths[key]
          /\ paths[key][method].operationId = route.hooks.detail.operationId

\* an ALL route on '/user/:user?/id/:id?' with an operationId of its own
C14_Witness ==
    /\ Emitted
    /\ route.method = "ALL"
    /\ route.path = PathOptional
    /\ Cardinality(DOMAIN paths) = 4
    /\ \A key \in DOMAIN paths : paths[key].trace.operationId = "anyUser"

StandardMethods ==
    {"get", "post", "put", "delete", "patch", "head", "options", "trace"}

\* C16: the iteration of an ALL route writes, under each of its expanded
\* paths, the eight standard methods and no other entry, all eight with the
\* operation it built and one operationId.
C16_AllExpansion ==
    [][(/\ pc = "loop"
        /\ index' = index + 1
        /\ ~Has(operation', "undefined")
        /\ toLowerCase(routes[index].method) = "all")
       => \A key \in {PathKey(possible) :
                         possible \in Range(getPossiblePath(routes[index].path))} :
             LET before == IF key \in DOMAIN paths THEN DOMAIN paths[key]
                           ELSE {}
             IN /\ key \in DOMAIN paths'
                /\ StandardMethods \subseteq DOMAIN paths'[key]
                /\ (DOMAIN paths'[key]) \ before \subseteq StandardMethods
                /\ \A m \in before \ StandardMethods :
                      paths'[key][m] = paths[key][m]
                /\ \A v, w \in StandardMethods :
                      paths'[key][v] = paths'[key][w]
                /\ \A v \in StandardMethods :
                      /\ Has(paths'[key][v], "operationId")
                      /\ Without(paths'[key][v], "operationId")
                         = Without(operation', "operationId")]_vars

\* an ALL route on '/x' that declares a body
C16_Witness ==
    /\ Emitted
    /\ route.method = "ALL"
    /\ route.path = PathX
    /\ Has(operation, "requestBody")
    /\ DOMAIN paths[PathKey(PathX)] = StandardMethods
    /\ \A v \in StandardMethods :
          paths[PathKey(PathX)][v].operationId = "allX"

\* the loop took at least one route: route is the last one it took
Processed == pc \in {"loop", "done"} /\ index > 1

\* the rules under which a route is to be left out of the document
LeftOut(r, ex) ==
    \/ "hide" \in DOMAIN r.hooks.detail /\ r.hooks.detail.hide
    \/ toLowerCase(r.method)
       \in (IF "methods" \in DOMAIN ex
            THEN {toLowerCase(ex.methods[n]) : n \in 1..Len(ex.methods)}
            ELSE {"options"})
    \/ /\ "paths" \in DOMAIN ex
       /\ \E n \in 1..Len(ex.paths) :
             \/ ex.paths[n] = r.path
             \/ /\ "regexp" \in DOMAIN ex.paths[n]
                /\ r.path \in ex.paths[n].regexp
    \/ /\ "staticFile" \in DOMAIN ex => ex.staticFile
       /\ \E n \in 1..Len(r.path.segs) :
             r.path.segs[n] \in {Static(name) : name \in DottedNames}
    \/ /\ "tags" \in DOMAIN ex
       /\ "tags" \in DOMAIN r.hooks.detail
       /\ \E i \in 1..Len(r.hooks.detail.tags), j \in 1..Len(ex.tags) :
             r.hooks.detail.tags[i] = ex.tags[j]

\* C17: a route is left out when it is hidden, its method is excluded
\* (options by default), its path equals an excluded string or matches an
\* excluded regular expression, its path has a dot while static files are
\* excluded, or it has an excluded tag; every other route is emitted.
C17_ExclusionRules ==
    Processed => (Emitted <=> ~LeftOut(route, exclude))

\* C18: no method outside the standard verbs stands in the document, and
\* the iteration of a route with such a method emits nothing.
C18_NoNonStandardMethod ==
    /\ \A key \in DOMAIN paths : DOMAIN paths[key] \subseteq StandardMethods
    /\ (Processed /\ toLowerCase(route.method) \notin StandardMethods \cup {"all"})
       => ~Emitted

\* the declarations of a slot for a route of the registry that are present:
\* those of its guards, then its own
Declared(r, slot) ==
    LET present(x) == ~Falsy(x)
    IN SelectSeq([n \in 1..Len(r.hooks.standaloneValidator) |->
                     r.hooks.standaloneValidator[n][slot]]
                 \o <<r.hooks[slot]>>, present)

\* the declarations of a response status for a route of the registry
DeclaredAt(r, status) ==
    LET present(x) == ~Falsy(x)
    IN SelectSeq([n \in 1..Len(r.hooks.standaloneValidator) |->
                     SchemaAt(r.hooks.standaloneValidator[n].response, status)]
                 \o <<SchemaAt(r.hooks.response, status)>>, present)

\* every schema of a content object is the pointer to the named definition
PointsTo(content, name) ==
    \A c \in DOMAIN content :
        /\ Has(content[c].schema, "$ref")
        /\ content[c].schema["$ref"]
           = <<"#", "components", "schemas", name.string>>

\* C19: a body, or a response status, declared once and by name, on the
\* route or on one of its guards, is emitted as the reference
\* '#/components/schemas/<name>', with or without a definition of the name.
C19_NamedReference ==
    Emitted
    => /\ (/\ Len(Declared(registry[index - 1], "body")) = 1
           /\ IsString(Declared(registry[index - 1], "body")[1])
           /\ Has(operation, "requestBody"))
          => PointsTo(operation.requestBody.content,
                      Declared(registry[index - 1], "body")[1])
       /\ \A status \in AllStatuses :
             (/\ Len(DeclaredAt(registry[index - 1], status)) = 1
              /\ IsString(DeclaredAt(registry[index - 1], status)[1])
              /\ Has(operation, "responses")
              /\ status \in DOMAIN operation.responses)
             => PointsTo(operation.responses[status].content,
                         DeclaredAt(registry[index - 1], status)[1])

----------------------------------------------------------------------------
(* Properties of enum folding *)

IsUnion(schema) == Has(schema, "Kind") /\ schema.Kind = "Union"

\* a union with at least one member, every member carrying a constant
ConstantsOnly(schema) ==
    /\ IsUnion(schema)
    /\ Len(schema.anyOf) > 0
    /\ \A i \in 1..Len(schema.anyOf) : Has(schema.anyOf[i], "const")

ConstantsOf(schema) ==
    [i \in 1..Len(schema.anyOf) |-> schema.anyOf[i].const]

HasProperties(schema) ==
    Has(schema, "type") /\ schema.type = "object" /\ Has(schema, "properties")

HasItems(schema) ==
    Has(schema, "type") /\ schema.type = "array" /\ Has(schema, "items")

\* a union of constants stands in schema, at the top or below properties
\* and items
RECURSIVE ContainsConstantsOnly(_)
ContainsConstantsOnly(schema) ==
    IF IsUnion(schema) THEN ConstantsOnly(schema)
    ELSE IF HasProperties(schema)
    THEN \E i \in 1..Len(schema.properties) :
            ContainsConstantsOnly(schema.properties[i].v)
    ELSE IF HasItems(schema) THEN ContainsConstantsOnly(schema.items)
    ELSE FALSE

\* after is before with the rewrite applied: a union of constants became
\* the enum of its constants, any other union is as it was, an object kept
\* its fields and property keys with the rewrite applied to each property,
\* an array kept its fields with the rewrite applied to its items
RECURSIVE Rewritten(_, _)
Rewritten(before, after) ==
    IF IsUnion(before)
    THEN IF ConstantsOnly(before)
         THEN after = [type |-> "string", enum |-> ConstantsOf(before)]
         ELSE after = before
    ELSE IF HasProperties(before)
    THEN /\ DOMAIN after = DOMAIN before
         /\ \A f \in DOMAIN before \ {"properties"} : after[f] = before[f]
         /\ Len(after.properties) = Len(before.properties)
         /\ \A i \in 1..Len(before.properties) :
               /\ after.properties[i].k = before.properties[i].k
               /\ Rewritten(before.properties[i].v, after.properties[i].v)
    ELSE IF HasItems(before)
    THEN /\ DOMAIN after = DOMAIN before
         /\ \A f \in DOMAIN before \ {"items"} : after[f] = before[f]
         /\ Rewritten(before.items, after.items)
    ELSE after = before

\* C20: enumToOpenApi rewrites a union to {type: 'string', enum: [constants
\* in member order]} exactly when the union has a member and every member
\* carries a constant, returns any other union as it was, applies the same
\* rewrite to every property of an object and to the items of an array, and
\* returns a schema holding no such union with equal content.
C20_EnumFolding ==
    callee = "enumToOpenApi" =>
        /\ Rewritten(arguments.schema, returned)
        /\ (IsUnion(arguments.schema) =>
               (ConstantsOnly(arguments.schema)
                  <=> /\ DOMAIN returned = {"type", "enum"}
                      /\ returned.type = "string"))
        /\ (~ContainsConstantsOnly(arguments.schema) =>
               returned = arguments.schema)

\* an object whose property holds an array of 'a' | 'b' came back with the
\* items folded, next to a property left as it was
C20_Witness ==
    /\ callee = "enumToOpenApi"
    /\ arguments.schema =
          TObject(<<P("a", TNumber), P("b", TArray(UnionAB))>>, <<>>)
    /\ returned =
          TObject(<<P("a", TNumber),
                   P("b", TArray([type |-> "string",
                                  enum |-> <<"a", "b">>]))>>, <<>>)

----------------------------------------------------------------------------
(* Properties of unwrapSchema on vendor schemas *)

\* a converter function is registered for the schema's vendor
HasConverter(call) ==
    /\ Has(call.mapJsonSchema, call.schema.std.vendor)
    /\ call.mapJsonSchema[call.schema.std.vendor].isFunction

\* the schema offers '~standard'.jsonSchema for the direction asked
HasNative(call) ==
    /\ Has(call.schema.std, "jsonSchema")
    /\ Has(call.schema.std.jsonSchema, call.io)

\* what probing the method names gives: toJsonSchema for arktype,
\* toJSONSchema and then toJsonSchema for any other vendor
Probed(schema) ==
    IF schema.std.vendor # "arktype" /\ Has(schema, "toJSONSchema")
    THEN IF Has(schema.toJSONSchema, "throws") THEN Undefined
         ELSE IF schema.toJSONSchema.returns # Undefined
         THEN schema.toJSONSchema.returns
         ELSE IF Has(schema, "toJsonSchema") THEN Caught(schema.toJsonSchema)
         ELSE Undefined
    ELSE IF Has(schema, "toJsonSchema") THEN Caught(schema.toJsonSchema)
    ELSE Undefined

\* the call returned what the first conversion in the order converter,
\* native, probe gives
ConvertedInOrder(call) ==
    IF HasConverter(call)
    THEN call.returned =
           enumToOpenApi(
             Caught(call.mapJsonSchema[call.schema.std.vendor].outcome))
    ELSE IF HasNative(call)
    THEN call.returned = Caught(call.schema.std.jsonSchema[call.io])
    ELSE call.returned = enumToOpenApi(Probed(call.schema))

\* C21: unwrapSchema converts a vendor schema with the user's converter for
\* its vendor whenever one is registered, with the vendor-native conversion
\* only when none is registered, and by probing the method names only when
\* neither exists.
C21_ConversionOrder ==
    \A i \in 1..Len(history) : ConvertedInOrder(history[i])

\* the vendors unwrapSchema has a diagnostic for
DiagnosedVendors == {"zod", "valibot", "effect"}

\* the call found no conversion: no converter function, no native
\* conversion and no method to probe
NoConversion(call) ==
    /\ ~HasConverter(call)
    /\ ~HasNative(call)
    /\ ~Has(call.schema, "toJsonSchema")
    /\ (call.schema.std.vendor = "arktype" \/ ~Has(call.schema, "toJSONSchema"))

\* call n is the first call of the history that found no conversion for
\* its vendor
FirstWithout(n) ==
    /\ NoConversion(history[n])
    /\ \A m \in 1..(n - 1) :
          NoConversion(history[m]) =>
              history[m].schema.std.vendor # history[n].schema.std.vendor

\* C22: over the unwrapSchema calls of one process, a call that finds no
\* conversion for a vendor that has a diagnostic prints it exactly when it
\* is the first such call for the vendor; the warned flags only grow; and
\* every call that finds no conversion returns undefined.
C22_DiagnosedOnce ==
    /\ \A n \in 1..Len(history) :
          NoConversion(history[n]) =>
              /\ history[n].returned = Undefined
              /\ history[n].schema.std.vendor \in DiagnosedVendors =>
                    (history[n].schema.std.vendor \in history[n].diagnosed
                       <=> FirstWithout(n))
    /\ \A n \in 1..(Len(history) - 1) :
          history[n].warned \subseteq history[n + 1].warned

\* the conversion unwrapSchema picks for a vendor schema throws
ConversionThrows(schema, mapJsonSchema, io) ==
    /\ ~Falsy(schema) /\ ~IsString(schema)
    /\ ~Has(schema, "Kind") /\ Has(schema, "std")
    /\ IF Has(schema.std, "jsonSchema") /\ Has(schema.std.jsonSchema, io)
       THEN Has(schema.std.jsonSchema[io], "throws")
       ELSE IF /\ Has(mapJsonSchema, schema.std.vendor)
               /\ mapJsonSchema[schema.std.vendor].isFunction
       THEN Has(mapJsonSchema[schema.std.vendor].outcome, "throws")
       ELSE IF schema.std.vendor # "arktype" /\ Has(schema, "toJSONSchema")
       THEN \/ Has(schema.toJSONSchema, "throws")
            \/ /\ schema.toJSONSchema.returns = Undefined
               /\ Has(schema, "toJsonSchema")
               /\ Has(schema.toJsonSchema, "throws")
       ELSE Has(schema, "toJsonSchema") /\ Has(schema.toJsonSchema, "throws")

\* the entry of the effective response for the status, if any
ResponseAt(status) ==
    IF Falsy(route.hooks.response) THEN Undefined
    ELSE IF IsStatusMap(route.hooks.response)
    THEN Entry(route.hooks.response, status)
    ELSE IF status = "200" THEN route.hooks.response
    ELSE Undefined

\* C23: when the conversion of a vendor schema throws, unwrapSchema returns
\* undefined; toOpenAPISchema then leaves the slot out of the operation
\* (no request body, no parameter in the slot's location, no response entry
\* for the status) and still writes the route's operation into the document.
C23_ThrowingConversion ==
    Emitted
    => /\ \A key \in WrittenKeys : \A method \in WrittenMethods :
             Has(paths, key) /\ Has(paths[key], method)
       /\ ConversionThrows(route.hooks.body, vendors, "input")
          => /\ unwrapSchema(route.hooks.body, vendors, "input") = Undefined
             /\ ~Has(operation, "requestBody")
       /\ \A n \in 1..Len(Locations) :
             ConversionThrows(route.hooks[Locations[n].slot], vendors, "input")
             => /\ unwrapSchema(route.hooks[Locations[n].slot], vendors,
                                "input") = Undefined
                /\ ParametersIn(operation, Locations[n]["in"]) = <<>>
       /\ \A status \in AllStatuses :
             ConversionThrows(ResponseAt(status), vendors, "output")
             => /\ unwrapSchema(ResponseAt(status), vendors, "output")
                   = Undefined
                /\ ~Has(operation.responses, status)

\* a POST route whose body conversion threw was written without a request
\* body, with the parameters and the response of its other slots
C23_Witness ==
    /\ Emitted
    /\ route.method = "POST"
    /\ ConversionThrows(route.hooks.body, vendors, "input")
    /\ ~Has(operation, "requestBody")
    /\ ParametersIn(operation, "path") # <<>>
    /\ Has(operation.responses, "200")
    /\ \A key \in WrittenKeys : Has(paths[key], "post")

----------------------------------------------------------------------------
(* Properties of the declaration miner *)

\* the schema a type stands for
RECURSIVE SchemaOf(_)
SchemaOf(type) ==
    IF IsWord(type) THEN [Kind |-> "String", type |-> type.word]
    ELSE ObjectOf([n \in 1..Len(type.members) |->
                      P(type.members[n].k, SchemaOf(type.members[n].v))])

\* the slots of a descriptor, an object-typed response keyed by status
SlotsOf(descriptor) ==
    [n \in 1..Len(descriptor.members) |->
        IF /\ descriptor.members[n].k = "response"
           /\ ~IsWord(descriptor.members[n].v)
        THEN P("response",
               [status \in {descriptor.members[n].v.members[m].k :
                               m \in 1..Len(descriptor.members[n].v.members)}
                |-> SchemaOf(
                      (CHOOSE member \in Range(descriptor.members[n].v.members)
                          : member.k = status).v)])
        ELSE P(descriptor.members[n].k, SchemaOf(descriptor.members[n].v))]

PathOfChain(chain) == "/" \o Join(chain.segments)

\* one entry per chain: its path, its lower-cased method, its slots
EntryPerChain(chains, rs) ==
    /\ DOMAIN rs = {PathOfChain(chains[n]) : n \in 1..Len(chains)}
    /\ \A n \in 1..Len(chains) :
          /\ DOMAIN rs[PathOfChain(chains[n])]
             = {toLowerCase(chains[m].method) :
                   m \in {k \in 1..Len(chains) :
                             PathOfChain(chains[k]) = PathOfChain(chains[n])}}
          /\ rs[PathOfChain(chains[n])][toLowerCase(chains[n].method)]
             = SlotsOf(chains[n].descriptor)

\* C24: for a declaration made of sibling chains seg1 -> ... -> segN ->
\* method -> descriptor, in one object literal or in literals joined by
\* '&', declarationToJSONSchema returns exactly one entry per chain, under
\* the path '/' + seg1/.../segN and the lower-cased method, holding the
\* descriptor's slots with an object-typed response keyed by status.
C24_EntryPerChain ==
    stage = "done"
    => \A chains \in ChainLists :
          code \in {QuoteKeys(InOneLiteral(chains)),
                    QuoteKeys(Intersected(chains))}
          => EntryPerChain(chains, mined)

\* the chains whose descriptor is not folded into the path
PlainChains == {c \in Chains : Len(c.descriptor.members) # 1}

\* C25: when the declaration holds a malformed part (a key whose colon is
\* followed by no block or by a block that is never closed, or a chain
\* without a method key) before or after a well-formed chain, the mapping
\* returned holds the entry of the well-formed chain and nothing else.
C25_OnlyMalformedSkipped ==
    stage = "done"
    => \A c \in PlainChains :
          /\ code = QuoteKeys(VersionBefore(c)) => EntryPerChain(<<c>>, mined)
          /\ code = QuoteKeys(VersionAfter(c)) => EntryPerChain(<<c>>, mined)
          /\ \A d \in CutChains :
                (c \in LongChains /\ code = QuoteKeys(Unclosed(c, d)))
                => EntryPerChain(<<c>>, mined)
          /\ (c \in LongChains /\ code = QuoteKeys(Methodless(c)))
             => EntryPerChain(<<c>>, mined)

\* the opening brace of the fragment's block: the first one of its span
BlockOf(fragment) ==
    Least({n \in fragment.start..(fragment.end - 1) : code[n] = Sym("{")})

\* the block of the fragment is open after each atom up to position last
OpenUpTo(fragment, last) ==
    \A n \in BlockOf(fragment)..last : Depth(code, BlockOf(fragment), n) > 0

\* the block of the fragment is closed by the last atom of its span
Closed(fragment) ==
    /\ code[fragment.end - 1] = Sym("}")
    /\ Depth(code, BlockOf(fragment), fragment.end - 1) = 0
    /\ OpenUpTo(fragment, fragment.end - 2)

\* the iteration left the index just past the closing brace of the
\* fragment it pushed, or past the last atom when the block is not closed
PastFragment(fragment, next) ==
    /\ next = fragment.end
    /\ \/ Closed(fragment)
       \/ next = Len(code) + 1 /\ OpenUpTo(fragment, Len(code))

\* C30, as stated: each iteration of extractRootObjects that pushes a
\* fragment moves the index to just past the closing brace of the
\* fragment's block, on every text, balanced or not.
C30_PastClosingBrace ==
    [][ExtractRootObject
       => /\ cursor' = results'[Len(results')].end
          /\ Closed(results'[Len(results')])]_vars

\* C30, amended: extractRootObjects terminates on every text, balanced or
\* not: each iteration that pushes a fragment moves the index strictly
\* forward, to just past the closing brace of the fragment's block, or past
\* the last character of the text when the block is never closed; the
\* fragments come from spans of the text that follow each other without
\* overlap, and they are never more than the colons of the text.
C30_ScanTerminates ==
    /\ [][ExtractRootObject
          => /\ cursor' > cursor
             /\ Len(results') = Len(results) + 1
             /\ PastFragment(results'[Len(results')], cursor')]_vars
    /\ [](/\ \A n \in 1..Len(results) :
               /\ results[n].text
                  = <<Sym("{")>>
                    \o SubSeq(code, results[n].start, results[n].end - 1)
                    \o <<Sym(";"), Sym("}")>>
               /\ n < Len(results) => results[n].end <= results[n + 1].start
          /\ Len(results)
             <= Cardinality({n \in 1..Len(code) : code[n] = Sym(":")}))
    /\ <>(stage # "extract")

\* the scan of a text that holds a closed block and then a block that is
\* never closed is over, with one fragment for each
C30_Witness ==
    /\ stage # "extract"
    /\ Len(results) = 2
    /\ Closed(results[1])
    /\ OpenUpTo(results[2], Len(code))
    /\ cursor = Len(code) + 1

----------------------------------------------------------------------------
(* Properties of repeated flattening and repeated generation *)

\* the slots of a route's hooks that hold a schema
SchemaSlots == {"params", "query", "headers", "cookie", "body", "response"}

\* flattenRoutes applied to its own result
FlattenedTwice(rs, mapJsonSchema) ==
    flattenRoutes(flattenRoutes(rs, mapJsonSchema), mapJsonSchema)

\* C26: flattenRoutes returns a route without guard chain unchanged, and
\* flattenRoutes applied to its own result gives, for every route and every
\* slot, the schema that one application gives.
C26_FlattenIdempotent ==
    pc = "idle"
    => \A n \in 1..Len(registry) :
          /\ Len(registry[n].hooks.standaloneValidator) = 0
             => flattenRoutes(registry, vendors)[n] = registry[n]
          /\ \A slot \in SchemaSlots :
                FlattenedTwice(registry, vendors)[n].hooks[slot]
                = flattenRoutes(registry, vendors)[n].hooks[slot]

C28_InputsReadOnly ==
    [][registry' = registry /\ references' = references]_vars

\* the iteration on routes[n] reached the write of its operation
Written(n) ==
    /\ ~Hidden(routes[n])
    /\ ~Excluded(routes[n], exclude)
    /\ ~TagExcluded(routes[n].hooks, exclude)

\* the methods routes[n] is written under
MethodsOf(n) ==
    IF toLowerCase(routes[n].method) = "all" THEN Range(Verbs)
    ELSE {toLowerCase(routes[n].method)}

\* the keys of the document routes[n] is written under
KeysOf(n) == {PathKey(p) : p \in Range(getPossiblePath(routes[n].path))}

\* the routes the loop went through that are written under key
Producers(key) ==
    {n \in 1..(index - 1) : Written(n) /\ key \in KeysOf(n)}

\* the routes the loop went through that produce the pair (key, method)
Writers(key, method) == {n \in Producers(key) : method \in MethodsOf(n)}

\* the methods of routes[n] that no later route of producers has
LastOf(n, producers) ==
    MethodsOf(n) \ UNION {MethodsOf(l) : l \in {l \in producers : l > n}}

\* the entry routes[n] has for key: its operation with the operation id
EntryOf(n, key) ==
    With(Operation(routes[n].hooks, routes[n].path,
                   toLowerCase(routes[n].method), vendors, definitions),
         "operationId",
         OperationIdOf(routes[n].hooks, routes[n].method,
             CHOOSE p \in Range(getPossiblePath(routes[n].path)) :
                PathKey(p) = key))

\* C29: the loop goes through the routes in registry order, and at every
\* moment the document holds, under each path and method, the operation of
\* the last route gone through that produces this pair; every pair a route
\* gone through produces is there, so what an earlier route wrote under
\* other methods of the path is kept.
C29_LastWriterWins ==
    /\ pc # "idle"
       => /\ Len(routes) = Len(registry)
          /\ \A n \in 1..Len(routes) :
                /\ routes[n].path = registry[n].path
                /\ routes[n].method = registry[n].method
    /\ \A key \in DOMAIN paths :
          \A producers \in {Producers(key)} :
             /\ DOMAIN paths[key] = UNION {MethodsOf(n) : n \in producers}
             /\ \A n \in producers :
                   {paths[key][method] : method \in LastOf(n, producers)}
                   \subseteq {EntryOf(n, key)}
    /\ \A n \in 1..(index - 1) : Written(n) => KeysOf(n) \subseteq DOMAIN paths

\* two routes were written that produce the same path and method with
\* different operations, and the first of them also wrote a method the
\* second does not produce
C29_Witness ==
    /\ pc = "done"
    /\ \E key \in DOMAIN paths :
          \E method, other \in DOMAIN paths[key] :
             /\ Writers(key, method) = {1, 2}
             /\ EntryOf(1, key) # EntryOf(2, key)
             /\ Writers(key, other) = {1}

====
